---- MODULE Spec2Model ----
(***************************************************************************)
(* A model of the LeetCode reporter bot (src/bot.py, src/leetcode_api.py): *)
(* the SQLite tables, the hourly collector, the report generator with the  *)
(* streak engine, and the clock and remote sources they read.              *)
(*                                                                         *)
(* Dates are kept as the code keeps them: TEXT columns in '%Y-%m-%d'       *)
(* form, here the tuple of the eight digits (the two dashes sit at fixed   *)
(* offsets and never decide a comparison).  A report or a collector pass   *)
(* gets its date by formatting a timestamp, the streak engine parses the   *)
(* text back to a calendar date.                                           *)
(***************************************************************************)
EXTENDS Integers, Sequences, FiniteSets, TLC

VARIABLES
    now,                  \* the wall clock, seconds since the epoch (UTC)
    legacy_tracked_users, \* the legacy table tracked_users: set of rows
    groups,               \* table groups: set of chat_id
    group_tracked_users,  \* table group_tracked_users: set of rows
    posted_today,         \* table posted_today (the dedup log): set of rows
    problem_info,         \* table problem_info: problem_slug -> row
    user_streaks,         \* table user_streaks: leetcode_username -> row
    remote,               \* the submission source: username -> recent list
    lastPass,             \* what the collector pass just taken met and did
    cmdReport,            \* the report a command handler is delivering
    jobReport,            \* the report the daily job is delivering
    lastEval              \* the evaluation, resolution, sweep or reply just made

vars == << now, legacy_tracked_users, groups, group_tracked_users,
           posted_today, problem_info, user_streaks, remote, lastPass,
           cmdReport, jobReport, lastEval >>

None == "none"
\* no report in hand; no collector pass, no streak evaluation just made
Idle == [status |-> "idle"]
NoPass == [status |-> "none"]
NoEval == [status |-> "none"]

(***************************************************************************)
(* Bounds of the model.                                                    *)
(***************************************************************************)
\* days the clock may advance past the first day
MaxDay == 1
\* accepted submissions the submission source comes to list for one user
MaxFeed == 2
\* limit=15: the entries the collector asks the source for
FetchLimit == 15
\* last day offset of the dates handed to the streak engine on its own
MaxStreakDay == 4
\* entries of the lists the collector is run over on their own
MaxList == 2
\* the last day of a run with the daily sweep
MaxSweepDay == 3
\* the longest streak, of solved or of missed days, a report finds stored
MaxStreak == 2
\* the oldest dedup row the sweep is run over on its own, in days
MaxRowAge == 4
\* last day offset of the dates evaluated with their history kept
MaxRunDay == 3
\* the last day of a run with the daily jobs
MaxJobDay == 3

SecondsPerDay == 86400

Chats == {1, 2}
Users == {"alice", "bob", "carol", "dave"}
Slugs == {"two-sum", "3sum"}
Names == {"Al", "Bo", "Cy", "Di"}

\* binary collation of the TEXT values, as SQLite orders them
UserOrder == << "alice", "bob", "carol", "dave" >>
NameOrder == << "Al", "Bo", "Cy", "Di" >>
SlugOrder == << "3sum", "two-sum" >>
DifficultyOrder == << "Easy", "Hard", "Medium" >>

RECURSIVE IndexOf(_, _)
IndexOf(seq, x) ==
    IF seq = << >> THEN 0
    ELSE IF Head(seq) = x THEN 1
    ELSE LET r == IndexOf(Tail(seq), x) IN IF r = 0 THEN 0 ELSE r + 1

(***************************************************************************)
(* Calendar: datetime's proleptic Gregorian arithmetic.                    *)
(***************************************************************************)
\* date -> days since 1970-01-01 (datetime.date ordinal arithmetic), by
\* eras of 400 years; yy is the year of a calendar that starts in March
DaysOfEra(yy, yoe, doy) ==
    (yy \div 400) * 146097 + yoe * 365 + yoe \div 4 - yoe \div 100 + doy - 719468
DaysOfMarchYear(yy, mp, d) ==
    DaysOfEra(yy, yy % 400, (153 * mp + 2) \div 5 + d - 1)
DaysFromCivil(y, m, d) ==
    DaysOfMarchYear(IF m <= 2 THEN y - 1 ELSE y, (m + 9) % 12, d)

\* days since 1970-01-01 -> [y, m, d]
CivilOfMonth(y, m, d) == [y |-> y + (IF m <= 2 THEN 1 ELSE 0), m |-> m, d |-> d]
CivilOfMp(y, doy, mp) ==
    CivilOfMonth(y, IF mp < 10 THEN mp + 3 ELSE mp - 9,
                 doy - (153 * mp + 2) \div 5 + 1)
CivilOfDoy(y, doy) == CivilOfMp(y, doy, (5 * doy + 2) \div 153)
CivilOfYoe(era, doe, yoe) ==
    CivilOfDoy(yoe + era * 400, doe - (365 * yoe + yoe \div 4 - yoe \div 100))
CivilOfDoe(era, doe) ==
    CivilOfYoe(era, doe,
               (doe - doe \div 1460 + doe \div 36524 - doe \div 146096) \div 365)
CivilFromDays(z) == CivilOfDoe((z + 719468) \div 146097, (z + 719468) % 146097)

\* '%Y-%m-%d' of a date: zero-padded digits
Digits(c) ==
    << c.y \div 1000, (c.y \div 100) % 10, (c.y \div 10) % 10, c.y % 10,
       c.m \div 10, c.m % 10, c.d \div 10, c.d % 10 >>

\* datetime.fromtimestamp(ts, tz=utc).strftime('%Y-%m-%d')
strftime(ts) == Digits(CivilFromDays(ts \div SecondsPerDay))

\* datetime.strptime(s, '%Y-%m-%d').date(), as days since the epoch
strptime(s) ==
    DaysFromCivil(s[1] * 1000 + s[2] * 100 + s[3] * 10 + s[4],
                  s[5] * 10 + s[6], s[7] * 10 + s[8])

\* SQLite's TEXT comparison a < b (memcmp of equal-length strings)
RECURSIVE TextLess(_, _)
TextLess(a, b) ==
    IF a = << >> \/ b = << >> THEN a = << >> /\ b # << >>
    ELSE IF Head(a) # Head(b) THEN Head(a) < Head(b)
    ELSE TextLess(Tail(a), Tail(b))

\* 2026-02-27: the first day of the model's window (it crosses a month end)
BaseDay == DaysFromCivil(2026, 2, 27)
\* clock readings are taken at 23:59:59 UTC, the last second of a date
TimeOfDay == SecondsPerDay - 1

\* the clock reading of the model's n-th day, and that day's date text
ClockOfDay(n) == (BaseDay + n) * SecondsPerDay + TimeOfDay
DateStr(n) == strftime(ClockOfDay(n))
\* datetime.now(utc).strftime('%Y-%m-%d')
today_utc_str == strftime(now)
\* (datetime.now(utc) - timedelta(days=1)).strftime('%Y-%m-%d')
yesterday_utc_str == strftime(now - SecondsPerDay)

(***************************************************************************)
(* The streak engine.                                                       *)
(***************************************************************************)
\* a faulty variant of reset_streak: a new run starts at two
reset_streak_doubled(solved_today) == IF solved_today THEN 2 ELSE 0 - 2

\* the streak of an identity with no record, or after a gap (lines 677, 692)
reset_streak(solved_today) == IF solved_today THEN 1 ELSE -1

\* a faulty variant of consecutive_streak: it counts on from the stored value
\* without restarting when the sign changes
consecutive_streak_unsigned(streak_value, solved_today) ==
    IF solved_today THEN streak_value + 1 ELSE streak_value - 1

\* the streak on the day after the recorded one (lines 693-696)
consecutive_streak(streak_value, solved_today) ==
    IF solved_today
    THEN (IF streak_value > 0 THEN streak_value + 1 ELSE 1)
    ELSE (IF streak_value < 0 THEN streak_value - 1 ELSE -1)

\* a faulty variant of new_streak_of: a gap of several days is treated as a
\* consecutive day
new_streak_ignoring_gap(streak_value, day_delta, solved_today) ==
    consecutive_streak(streak_value, solved_today)

\* a faulty variant of new_streak_of: after a gap the count restarts at zero
new_streak_from_zero(streak_value, day_delta, solved_today) ==
    IF day_delta # 1 THEN 0
    ELSE consecutive_streak(streak_value, solved_today)

\* new_streak of an identity with a record, day_delta >= 1 (lines 691-696)
new_streak_of(streak_value, day_delta, solved_today) ==
    IF day_delta # 1 THEN reset_streak(solved_today)
    ELSE consecutive_streak(streak_value, solved_today)

\* a faulty variant of first_show_flag: the first label is shown
first_show_flag_shown == TRUE

\* show_streak_flag of an identity evaluated for the first time (line 682)
first_show_flag == FALSE

\* INSERT / UPDATE of one user_streaks row (the primary key is the username)
put_streak(streaks, username, date_str, value) ==
    [u \in DOMAIN streaks \cup {username} |->
        IF u = username
        THEN [last_date |-> date_str, streak_value |-> value]
        ELSE streaks[u]]

\* a faulty variant of update_existing: the date is evaluated again even when
\* it is not after the recorded one
update_existing_unguarded(streaks, username, date_str, solved_today, streak_value, day_delta) ==
    [streaks |-> put_streak(streaks, username, date_str,
                     new_streak_of(streak_value, day_delta, solved_today)),
     value |-> new_streak_of(streak_value, day_delta, solved_today),
     show |-> TRUE]

\* a faulty variant of update_existing: a date before the recorded one
\* starts a new run
update_existing_backdated(streaks, username, date_str, solved_today, streak_value, day_delta) ==
    IF day_delta = 0
    THEN [streaks |-> streaks, value |-> streak_value, show |-> TRUE]
    ELSE [streaks |-> put_streak(streaks, username, date_str,
                         new_streak_of(streak_value, day_delta, solved_today)),
          value |-> new_streak_of(streak_value, day_delta, solved_today),
          show |-> TRUE]

\* the branches of update_user_streak for an identity with a record
\* (lines 684-702)
update_existing(streaks, username, date_str, solved_today, streak_value, day_delta) ==
    IF day_delta <= 0
    THEN [streaks |-> streaks, value |-> streak_value, show |-> TRUE]
    ELSE [streaks |-> put_streak(streaks, username, date_str,
                         new_streak_of(streak_value, day_delta, solved_today)),
          value |-> new_streak_of(streak_value, day_delta, solved_today),
          show |-> TRUE]

\* update_user_streak over the table `streaks`: the table after the call and
\* the returned (streak_value, show_streak_flag)
update_user_streak(streaks, username, date_str, solved_today) ==
    IF username \notin DOMAIN streaks
    THEN [streaks |-> put_streak(streaks, username, date_str,
                                 reset_streak(solved_today)),
          value |-> reset_streak(solved_today), show |-> first_show_flag]
    ELSE update_existing(streaks, username, date_str, solved_today,
                         streaks[username].streak_value,
                         strptime(date_str) - strptime(streaks[username].last_date))

EmptyTable == [x \in {} |-> None]

(***************************************************************************)
(* The remote sources.                                                     *)
(***************************************************************************)
\* what the metadata source holds for a problem: (difficulty, title)
Catalog(problem_slug) ==
    IF problem_slug = "two-sum" THEN << "Easy", "Two Sum" >>
    ELSE << "Medium", "3Sum" >>

\* the first n entries of a list
Take(seq, n) == SubSeq(seq, 1, IF Len(seq) < n THEN Len(seq) ELSE n)

\* fetch_problem_difficulty: (difficulty, title), or (None, None) on an error
\* status, a GraphQL error or missing data; "raise" is an exception that is
\* not a RequestException and so leaves the function
ApiOk == "ok"
ApiFail == "fail"
ApiRaise == "raise"
fetch_problem_difficulty(title_slug, outcome) ==
    IF outcome = ApiOk THEN [raised |-> FALSE, value |-> Catalog(title_slug)]
    ELSE IF outcome = ApiFail THEN [raised |-> FALSE, value |-> << None, None >>]
    ELSE [raised |-> TRUE, value |-> << None, None >>]

\* fetch_recent_submissions(username, limit) asked while the source holds
\* `source`: the list, None, or an exception
fetch_recent_submissions(source, username, outcome) ==
    IF outcome = ApiOk
    THEN [raised |-> FALSE, is_none |-> FALSE, list |-> Take(source[username], FetchLimit)]
    ELSE IF outcome = ApiFail
    THEN [raised |-> FALSE, is_none |-> TRUE, list |-> << >>]
    ELSE [raised |-> TRUE, is_none |-> FALSE, list |-> << >>]

(***************************************************************************)
(* The problem metadata cache.                                             *)
(***************************************************************************)
\* Python truthiness of the two values the lookup returned
Truthy(x) == x # None /\ x # ""

\* a faulty variant of put_info: the two columns are stored swapped
put_info_swapped(info, problem_slug, difficulty, title) ==
    [q \in DOMAIN info \cup {problem_slug} |->
        IF q = problem_slug THEN [difficulty |-> title, title |-> difficulty]
        ELSE info[q]]

\* INSERT INTO problem_info (the primary key is the slug)
put_info(info, problem_slug, difficulty, title) ==
    [q \in DOMAIN info \cup {problem_slug} |->
        IF q = problem_slug THEN [difficulty |-> difficulty, title |-> title]
        ELSE info[q]]

\* a faulty variant of cache_answer: a failed lookup is cached as a marker
cache_answer_marking(info, problem_slug, api) ==
    IF api.raised
    THEN [info |-> info, result |-> << None, None >>,
          called |-> TRUE, raised |-> TRUE]
    ELSE IF Truthy(api.value[1]) /\ Truthy(api.value[2])
    THEN [info |-> put_info(info, problem_slug, api.value[1], api.value[2]),
          result |-> api.value, called |-> TRUE, raised |-> FALSE]
    ELSE [info |-> put_info(info, problem_slug, "N/A", problem_slug),
          result |-> << "N/A", problem_slug >>,
          called |-> TRUE, raised |-> FALSE]

\* lines 644-656: what get_or_fetch_problem_info does with the lookup's answer
cache_answer(info, problem_slug, api) ==
    IF api.raised
    THEN [info |-> info, result |-> << None, None >>,
          called |-> TRUE, raised |-> TRUE]
    ELSE IF Truthy(api.value[1]) /\ Truthy(api.value[2])
    THEN [info |-> put_info(info, problem_slug, api.value[1], api.value[2]),
          result |-> api.value, called |-> TRUE, raised |-> FALSE]
    ELSE [info |-> info, result |-> << "N/A", problem_slug >>,
          called |-> TRUE, raised |-> FALSE]

\* a faulty variant of resolve_with: the lookup is made on a cache hit too
resolve_always_fetching(info, problem_slug, api) ==
    cache_answer(info, problem_slug, api)

\* lines 635-656: get_or_fetch_problem_info over the table `info`, `api`
\* being what fetch_problem_difficulty does if it is called: the table
\* after, the returned pair, whether the lookup was invoked and whether an
\* exception left the function
resolve_with(info, problem_slug, api) ==
    IF problem_slug \in DOMAIN info
    THEN [info |-> info,
          result |-> << info[problem_slug].difficulty, info[problem_slug].title >>,
          called |-> FALSE, raised |-> FALSE]
    ELSE cache_answer(info, problem_slug, api)

\* get_or_fetch_problem_info with the lookup answering with `outcome` if it
\* is asked
get_or_fetch_problem_info(info, problem_slug, outcome) ==
    resolve_with(info, problem_slug,
                 fetch_problem_difficulty(problem_slug, outcome))

(***************************************************************************)
(* The collector.                                                          *)
(***************************************************************************)
PostedRow(chat_id, username, problem_slug, date_posted) ==
    [chat_id |-> chat_id, leetcode_username |-> username,
     problem_slug |-> problem_slug, date_posted |-> date_posted]

\* a faulty variant of rollback_unit: the rollback also empties the
\* metadata committed before the unit
rollback_unit_wiping(committed, txn) ==
    [committed EXCEPT !.info = EmptyTable]

\* a faulty variant of rollback_unit: the failed unit's writes are kept
rollback_unit_kept(committed, txn) == txn

\* conn.commit() / conn.rollback() of the collector's connection: the
\* database after, given the committed tables and the open transaction's
commit_unit(committed, txn) == txn
rollback_unit(committed, txn) == committed

\* a faulty variant of already_posted: the dedup log is not consulted
already_posted_unchecked(posted, chat_id, username, problem_slug, date_posted) ==
    FALSE

\* SELECT 1 FROM posted_today WHERE chat_id, username, slug, date (line 439)
already_posted(posted, chat_id, username, problem_slug, date_posted) ==
    PostedRow(chat_id, username, problem_slug, date_posted) \in posted

\* lines 447-458: a submission not yet recorded, r being what
\* get_or_fetch_problem_info did; the INSERT follows unless it raised, and
\* raises itself (IntegrityError) on a row the primary key already holds
record_new(st, chat_id, username, problem_slug, today, r) ==
    [posted |-> IF r.raised THEN st.posted
                ELSE st.posted \cup {PostedRow(chat_id, username, problem_slug, today)},
     info |-> r.info,
     calls |-> IF r.called
               THEN Append(st.calls, << chat_id, username, problem_slug >>)
               ELSE st.calls,
     raised |-> r.raised
                \/ PostedRow(chat_id, username, problem_slug, today) \in st.posted]

\* what the metadata source does on the k-th lookup of a pass, `meta` being
\* its answers in the order of the calls (an answer nobody has drawn yet
\* stands as a success)
answer_of(meta, k) == IF k \in DOMAIN meta THEN meta[k] ELSE ApiOk

\* a faulty variant of scan_submissions: the dedup check reads the rows
\* committed before the unit, not those of the open transaction
RECURSIVE scan_against(_, _, _, _, _, _, _)
scan_against(committed, subs, chat_id, username, today, meta, st) ==
    IF subs = << >> \/ st.raised THEN st
    ELSE IF strftime(Head(subs).timestamp) # today THEN st
    ELSE IF already_posted(committed, chat_id, username, Head(subs).titleSlug, today)
    THEN scan_against(committed, Tail(subs), chat_id, username, today, meta, st)
    ELSE scan_against(committed, Tail(subs), chat_id, username, today, meta,
            record_new(st, chat_id, username, Head(subs).titleSlug, today,
                get_or_fetch_problem_info(st.info, Head(subs).titleSlug,
                                          answer_of(meta, Len(st.calls) + 1))))

scan_submissions_committed(subs, chat_id, username, today, meta, st) ==
    scan_against(st.posted, subs, chat_id, username, today, meta, st)

\* a faulty variant of scan_submissions: an entry of another date is skipped
\* and the scan goes on (a filter, not a short-circuit)
RECURSIVE scan_submissions_filtering(_, _, _, _, _, _)
scan_submissions_filtering(subs, chat_id, username, today, meta, st) ==
    IF subs = << >> \/ st.raised THEN st
    ELSE IF strftime(Head(subs).timestamp) # today
         \/ already_posted(st.posted, chat_id, username, Head(subs).titleSlug, today)
    THEN scan_submissions_filtering(Tail(subs), chat_id, username, today, meta, st)
    ELSE scan_submissions_filtering(Tail(subs), chat_id, username, today, meta,
            record_new(st, chat_id, username, Head(subs).titleSlug, today,
                get_or_fetch_problem_info(st.info, Head(subs).titleSlug,
                                          answer_of(meta, Len(st.calls) + 1))))

\* the scan of one identity's list (the for loop of lines 426-458) inside the
\* open transaction st = [posted, info, calls, raised]; every lookup is a
\* call of its own to the metadata source and gets the next of its answers
RECURSIVE scan_submissions(_, _, _, _, _, _)
scan_submissions(subs, chat_id, username, today, meta, st) ==
    IF subs = << >> \/ st.raised THEN st
    ELSE IF strftime(Head(subs).timestamp) # today THEN st
    ELSE IF already_posted(st.posted, chat_id, username, Head(subs).titleSlug, today)
    THEN scan_submissions(Tail(subs), chat_id, username, today, meta, st)
    ELSE scan_submissions(Tail(subs), chat_id, username, today, meta,
            record_new(st, chat_id, username, Head(subs).titleSlug, today,
                get_or_fetch_problem_info(st.info, Head(subs).titleSlug,
                                          answer_of(meta, Len(st.calls) + 1))))

\* the except branch of lines 462-465: the unit is logged as failed
log_failure(db, chat_id, username) ==
    [db EXCEPT !.failed = Append(@, << chat_id, username >>)]

\* the end of the try block: commit (line 460), or rollback in the handler
\* (line 464); the lookups were made whatever becomes of the transaction
end_unit(db, chat_id, username, st) ==
    IF st.raised
    THEN rollback_unit(
             log_failure([db EXCEPT !.calls = st.calls], chat_id, username),
             log_failure([posted |-> st.posted, info |-> st.info,
                          calls |-> st.calls, failed |-> db.failed],
                         chat_id, username))
    ELSE commit_unit([db EXCEPT !.calls = st.calls],
                     [posted |-> st.posted, info |-> st.info,
                      calls |-> st.calls, failed |-> db.failed])

\* a faulty variant of unit_with: an absent answer is iterated over, which
\* raises inside the try block
unit_with_none_iterated(db, chat_id, username, today, submissions, meta) ==
    IF submissions.raised \/ submissions.is_none
    THEN rollback_unit(log_failure(db, chat_id, username),
                       log_failure(db, chat_id, username))
    ELSE end_unit(db, chat_id, username,
                  scan_submissions(submissions.list, chat_id, username, today,
                        meta, [posted |-> db.posted, info |-> db.info,
                               calls |-> db.calls, raised |-> FALSE]))

\* lines 422-424 and on: what the unit does with the source's answer
unit_with(db, chat_id, username, today, submissions, meta) ==
    IF submissions.raised
    THEN rollback_unit(log_failure(db, chat_id, username),
                       log_failure(db, chat_id, username))
    ELSE IF submissions.is_none THEN db
    ELSE end_unit(db, chat_id, username,
                  scan_submissions(submissions.list, chat_id, username, today,
                        meta, [posted |-> db.posted, info |-> db.info,
                               calls |-> db.calls, raised |-> FALSE]))

\* one (group, identity) unit: the try block of lines 421-465 on the database
\* db = [posted, info, calls, failed], given[unit] being what
\* fetch_recent_submissions returned to it
collect_unit(db, unit, today, given, meta) ==
    unit_with(db, unit[1], unit[2], today, given[unit], meta)

\* the rows of a table in the order of a column's collation
RECURSIVE InOrder(_, _)
InOrder(order, S) ==
    IF order = << >> THEN << >>
    ELSE (IF Head(order) \in S THEN << Head(order) >> ELSE << >>)
         \o InOrder(Tail(order), S)

ChatOrder == << 1, 2 >>

\* the (chat_id, username) units of a pass, in the order of the two loops
\* (lines 406-417): groups and their tracked users in primary-key order
RECURSIVE units_of(_)
units_of(chats) ==
    IF chats = << >> THEN << >>
    ELSE LET c == Head(chats)
             us == InOrder(UserOrder,
                     {r.leetcode_username : r \in {x \in group_tracked_users :
                                                     x.chat_id = c}})
         IN  [i \in 1..Len(us) |-> << c, us[i] >>] \o units_of(Tail(chats))

PassUnits == units_of(InOrder(ChatOrder, groups))

SetOf(seq) == {seq[i] : i \in 1..Len(seq)}

\* the submission source after it has started to list the submissions
\* `subs` of a user: the newest come first, and what it listed before
\* stays listed behind them
listed(source, username, subs) ==
    [source EXCEPT ![username] = subs \o @]

\* the calls of line 422 from the k-th unit on, one per unit and in the
\* order of the units: between the call for a unit and the call before it
\* the source may start to list a submission, arrived[k] = << username, sub
\* >>, and it answers the call as fetched[unit] says. The answer given to
\* each unit, and the source after the last call
RECURSIVE fetches(_, _, _, _, _)
fetches(source, units, k, fetched, arrived) ==
    IF k > Len(units) THEN [given |-> EmptyTable, source |-> source]
    ELSE LET src == IF k \in DOMAIN arrived /\ arrived[k] # << >>
                    THEN listed(source, arrived[k][1][1],
                                << arrived[k][1][2] >>)
                    ELSE source
             rest == fetches(src, units, k + 1, fetched, arrived)
         IN  [given |-> (units[k] :> fetch_recent_submissions(
                                         src, units[k][2], fetched[units[k]]))
                        @@ rest.given,
              source |-> rest.source]

\* the loops of lines 406-465 over the units, in their order, on the
\* database db, given[unit] being what line 422 returned to each. The
\* metadata source answers each call of line 452 -> 644 on its own: `meta`
\* holds the answers drawn so far, in the order of the calls (db.calls being
\* the calls they answer). The unit at the head is run on them; while it
\* asks for one more, each of MetaOutcomes is drawn for that call and the
\* unit is run again; then the next unit is run on what the unit has left.
\* The set of the ways the loops can go: the answers given and the database
\* left. With every answer in `meta` and nothing left to draw it is the one
\* run those answers make
RECURSIVE collect_units(_, _, _, _, _, _)
collect_units(db, units, today, given, meta, MetaOutcomes) ==
    IF units = << >> THEN {[meta |-> meta, db |-> db]}
    ELSE LET after == collect_unit(db, Head(units), today, given, meta)
         IN  IF Len(after.calls) <= Len(meta)
             THEN collect_units(after, Tail(units), today, given, meta,
                                MetaOutcomes)
             ELSE UNION {collect_units(db, units, today, given,
                                       Append(meta, outcome), MetaOutcomes) :
                            outcome \in MetaOutcomes}

\* a faulty variant of check_for_updates: a pass that records something
\* new posts a message to the first group
check_for_updates_posting(FetchOutcomes, MetaOutcomes, Arrivals) ==
    \E units \in {PassUnits} :
    \E fetched \in [SetOf(units) -> FetchOutcomes],
       arrived \in [2..Len(units) ->
                      {<< >>} \cup {<< a >> : a \in Arrivals}] :
    \E f \in {fetches(remote, units, 1, fetched, arrived)} :
    \E run \in collect_units([posted |-> posted_today,
                               info |-> problem_info,
                               calls |-> << >>, failed |-> << >>],
                              units, today_utc_str, f.given, << >>,
                              MetaOutcomes) :
    \E db \in {run.db}, meta \in {run.meta} :
        /\ posted_today' = db.posted
        /\ problem_info' = db.info
        /\ remote' = f.source
        /\ lastPass' = [status |-> "run", fetched |-> fetched,
                        given |-> f.given, meta |-> meta,
                        calls |-> db.calls, failed |-> db.failed]
        /\ lastEval' = NoEval
        /\ cmdReport' = IF db.posted = posted_today THEN cmdReport
                        ELSE [status |-> "sending", chat_id |-> 1,
                              date_str |-> today_utc_str,
                              solved_users |-> << >>, sleepers |-> << >>,
                              message |-> << >>]
        /\ UNCHANGED << now, groups, group_tracked_users, user_streaks,
                        jobReport, legacy_tracked_users >>

\* check_for_updates: one whole pass (the coroutine never awaits, so no other
\* job or handler runs inside it). Its calls to the two sources block, one
\* after the other, and each is answered on its own: the submission source
\* unit by unit from FetchOutcomes, listing by then what has arrived from
\* Arrivals since the call before, and the metadata source call by call
\* from MetaOutcomes
check_for_updates(FetchOutcomes, MetaOutcomes, Arrivals) ==
    \E units \in {PassUnits} :
    \E fetched \in [SetOf(units) -> FetchOutcomes],
       arrived \in [2..Len(units) ->
                      {<< >>} \cup {<< a >> : a \in Arrivals}] :
    \E f \in {fetches(remote, units, 1, fetched, arrived)} :
    \E run \in collect_units([posted |-> posted_today,
                               info |-> problem_info,
                               calls |-> << >>, failed |-> << >>],
                              units, today_utc_str, f.given, << >>,
                              MetaOutcomes) :
    \E db \in {run.db}, meta \in {run.meta} :
        /\ posted_today' = db.posted
        /\ problem_info' = db.info
        /\ remote' = f.source
        /\ lastPass' = [status |-> "run", fetched |-> fetched,
                        given |-> f.given, meta |-> meta,
                        calls |-> db.calls, failed |-> db.failed]
        /\ lastEval' = NoEval
        /\ UNCHANGED << now, groups, group_tracked_users, user_streaks,
                        cmdReport, jobReport, legacy_tracked_users >>

(***************************************************************************)
(* The report generator.                                                   *)
(***************************************************************************)
\* SELECT leetcode_username, display_name FROM group_tracked_users
\* WHERE chat_id = ? ORDER BY display_name (lines 480-484); rows of one
\* display name come in primary-key order
RECURSIVE users_named(_, _, _)
users_named(chat_id, display_name, order) ==
    IF order = << >> THEN << >>
    ELSE (IF [chat_id |-> chat_id, leetcode_username |-> Head(order),
              display_name |-> display_name] \in group_tracked_users
          THEN << [username |-> Head(order), display_name |-> display_name] >>
          ELSE << >>)
         \o users_named(chat_id, display_name, Tail(order))

RECURSIVE tracked_users_of(_, _)
tracked_users_of(chat_id, names) ==
    IF names = << >> THEN << >>
    ELSE users_named(chat_id, Head(names), UserOrder)
         \o tracked_users_of(chat_id, Tail(names))

\* the rows of the report's join for one tracked identity (lines 492-508):
\* posted_today JOIN group_tracked_users JOIN problem_info, WHERE date and
\* chat, ORDER BY display_name, difficulty; here the identity's part of it
joined_slugs(chat_id, username, date_str, difficulty) ==
    {q \in DOMAIN problem_info :
        /\ PostedRow(chat_id, username, q, date_str) \in posted_today
        /\ problem_info[q].difficulty = difficulty}

RECURSIVE submissions_by(_, _, _, _)
submissions_by(chat_id, username, date_str, difficulties) ==
    IF difficulties = << >> THEN << >>
    ELSE LET d == Head(difficulties)
             qs == InOrder(SlugOrder, joined_slugs(chat_id, username, date_str, d))
         IN  [i \in 1..Len(qs) |-> << d, problem_info[qs[i]].title, qs[i] >>]
             \o submissions_by(chat_id, username, date_str, Tail(difficulties))

\* a faulty variant of solved_anywhere: only the first group's rows count
solved_in_first_group(username, date_str) ==
    \E r \in posted_today :
        /\ r.leetcode_username = username
        /\ r.date_posted = date_str
        /\ r.chat_id = Head(ChatOrder)

\* SELECT 1 FROM posted_today WHERE leetcode_username = ? AND date_posted = ?
\* (lines 535-539): solved in any group on that date
solved_anywhere(username, date_str) ==
    \E r \in posted_today :
        r.leetcode_username = username /\ r.date_posted = date_str

\* format_streak_label, and the empty label of a hidden streak (line 541)
format_streak_label(streak_value) ==
    IF streak_value > 0 THEN << "fire", "+", streak_value >>
    ELSE << "ice", "", streak_value >>

\* lines 541-547: the entry of one tracked user, r being what
\* update_user_streak returned
entry_of(user, submissions, anywhere, r) ==
    [username |-> user.username,
     display_name |-> user.display_name,
     streak_label |-> IF r.show THEN format_streak_label(r.value) ELSE << >>,
     submissions |-> submissions,
     solved_in_group |-> Len(submissions) > 0,
     solved_anywhere_today |-> anywhere,
     streak_value |-> r.value,
     show_streak |-> r.show]

\* one turn of the loop of lines 529-547
account_user(acct, user, chat_id, date_str, anywhere) ==
    [streaks |-> update_user_streak(acct.streaks, user.username, date_str,
                                    anywhere).streaks,
     entries |-> Append(acct.entries,
                    entry_of(user,
                        submissions_by(chat_id, user.username, date_str,
                                       DifficultyOrder),
                        anywhere,
                        update_user_streak(acct.streaks, user.username,
                                           date_str, anywhere)))]

\* the loop of lines 529-547 over the tracked users: the streak table after
\* it and one entry per user
RECURSIVE account_users(_, _, _, _)
account_users(tracked, chat_id, date_str, acct) ==
    IF tracked = << >> THEN acct
    ELSE account_users(Tail(tracked), chat_id, date_str,
            account_user(acct, Head(tracked), chat_id, date_str,
                         solved_anywhere(Head(tracked).username, date_str)))

\* a faulty variant of Precedes: the entries are left in the order in which
\* the roster was read
Precedes_unsorted(h, e, descending) == TRUE

\* list.sort(key=streak) of Python: stable; descending keeps the order of ties
Precedes(h, e, descending) ==
    IF descending THEN h.streak_value >= e.streak_value
    ELSE h.streak_value <= e.streak_value

RECURSIVE insert_sorted(_, _, _)
insert_sorted(sorted, e, descending) ==
    IF sorted = << >> THEN << e >>
    ELSE IF Precedes(Head(sorted), e, descending)
    THEN << Head(sorted) >> \o insert_sorted(Tail(sorted), e, descending)
    ELSE << e >> \o sorted

RECURSIVE sort_by_streak(_, _, _)
sort_by_streak(entries, descending, acc) ==
    IF entries = << >> THEN acc
    ELSE sort_by_streak(Tail(entries), descending,
                        insert_sorted(acc, Head(entries), descending))

diff_icon(difficulty) ==
    IF difficulty = "Easy" THEN "green"
    ELSE IF difficulty = "Medium" THEN "orange" ELSE "red"

problem_url(slug) == << "https://leetcode.com/problems/", slug, "/" >>

problem_line(sub) == << diff_icon(sub[1]), problem_url(sub[3]), sub[2] >>

\* the two sections of the message (lines 550-569)
solved_line(e) ==
    [name |-> << e.display_name, e.streak_label >>,
     problems |-> [j \in 1..Len(e.submissions) |-> problem_line(e.submissions[j])]]

solved_section(date_str, solved_users) ==
    [heading |-> << date_str, "solved" >>,
     lines |-> [i \in 1..Len(solved_users) |-> solved_line(solved_users[i])]]

sleeper_line(e) ==
    [name |-> << e.display_name, e.streak_label >>, problems |-> << >>]

sleepers_section(date_str, sleepers) ==
    [heading |-> << date_str, "sleepers" >>,
     lines |-> [i \in 1..Len(sleepers) |-> sleeper_line(sleepers[i])]]

\* a faulty variant of IsSleeper: the solvers are listed there as well
IsSleeper_everyone(e) == TRUE

IsSolver(e) == e.solved_in_group
IsSleeper(e) == ~e.solved_in_group

\* a faulty variant of commit_report: the evaluations are not committed
commit_report_dropped(committed, txn) == committed

\* conn.commit() of line 573, before the message is sent: the committed
\* streak table, given the one before the report and the transaction's
commit_report(committed, txn) == txn

\* a faulty variant of message_of: both sections are always composed
message_of_both(date_str, solved_users, sleepers) ==
    << solved_section(date_str, solved_users),
       sleepers_section(date_str, sleepers) >>

\* lines 549-569: a section with nobody in it is left out
message_of(date_str, solved_users, sleepers) ==
    (IF solved_users # << >>
     THEN << solved_section(date_str, solved_users) >> ELSE << >>)
    \o (IF sleepers # << >>
        THEN << sleepers_section(date_str, sleepers) >> ELSE << >>)

compose_report(date_str, streaks, solved_users, sleepers) ==
    [empty |-> FALSE, streaks |-> commit_report(user_streaks, streaks),
     solved_users |-> solved_users, sleepers |-> sleepers,
     message |-> message_of(date_str, solved_users, sleepers)]

report_of(date_str, acct) ==
    compose_report(date_str, acct.streaks,
        sort_by_streak(SelectSeq(acct.entries, IsSolver), TRUE, << >>),
        sort_by_streak(SelectSeq(acct.entries, IsSleeper), FALSE, << >>))

\* a faulty variant of report_for: no early return for an empty roster
report_for_unguarded(chat_id, date_str, tracked_users) ==
    report_of(date_str,
        account_users(tracked_users, chat_id, date_str,
                      [streaks |-> user_streaks, entries |-> << >>]))

report_for(chat_id, date_str, tracked_users) ==
    IF tracked_users = << >>
    THEN [empty |-> TRUE, streaks |-> user_streaks, solved_users |-> << >>,
          sleepers |-> << >>, message |-> << >>]
    ELSE report_of(date_str,
            account_users(tracked_users, chat_id, date_str,
                          [streaks |-> user_streaks, entries |-> << >>]))

\* generate_and_send_report up to its await: [empty] when nobody is tracked,
\* else the committed streak table, the entries and the message to send
generate_report(chat_id, date_str) ==
    report_for(chat_id, date_str, tracked_users_of(chat_id, NameOrder))

\* the report a caller is left with: awaiting send_message, or returned
Sending(chat_id, date_str, g) ==
    [status |-> "sending", chat_id |-> chat_id, date_str |-> date_str,
     solved_users |-> g.solved_users, sleepers |-> g.sleepers,
     message |-> g.message]
Returned(chat_id, date_str, sent, attempted) ==
    [status |-> "returned", chat_id |-> chat_id, date_str |-> date_str,
     sent |-> sent, attempted |-> attempted]

Busy(report) == report.status = "sending"

\* a command handler is suspended in an await: in reply_text before its
\* report, or in the send_message of its report. Updates are handled one at
\* a time, so no other command is taken up meanwhile; the jobs run
Handling(report) == report.status \in {"replying", "sending"}

\* lines 346-368 (309-327) of a report command in a group chat: the group's
\* registration is looked up (a group that is not registered is told so and
\* the handler returns), then the handler awaits reply_text with the notice
\* that the report is being prepared
report_command(chat_ids, command) == \E chat_id \in chat_ids :
    /\ ~Handling(cmdReport)
    /\ chat_id \in groups
    /\ cmdReport' = [status |-> "replying", chat_id |-> chat_id,
                     command |-> command]
    /\ lastPass' = NoPass
    /\ lastEval' = NoEval
    /\ UNCHANGED << now, groups, group_tracked_users, posted_today,
                    problem_info, user_streaks, remote, jobReport,
                    legacy_tracked_users >>

\* /send_today
manual_send_today_command(chat_ids) == report_command(chat_ids, "send_today")

\* /send_report
manual_send_report_command(chat_ids) == report_command(chat_ids, "send_report")

\* reply_text has returned: the handler reads the clock now (lines 370-371,
\* 330-331) and calls generate_and_send_report(chat_id, date_str), which
\* runs up to its await or returns False; or reply_text has raised, and the
\* handler ends with no report
command_report ==
    /\ cmdReport.status = "replying"
    /\ \E replied \in BOOLEAN :
          IF replied
          THEN \E date_str \in {IF cmdReport.command = "send_today"
                                THEN today_utc_str ELSE yesterday_utc_str} :
               \E g \in {generate_report(cmdReport.chat_id, date_str)} :
                  /\ user_streaks' = g.streaks
                  /\ cmdReport' =
                        IF g.empty
                        THEN Returned(cmdReport.chat_id, date_str, FALSE, FALSE)
                        ELSE Sending(cmdReport.chat_id, date_str, g)
          ELSE /\ user_streaks' = user_streaks
               /\ cmdReport' = Idle
    /\ lastPass' = NoPass
    /\ lastEval' = NoEval
    /\ UNCHANGED << now, groups, group_tracked_users, posted_today,
                    problem_info, remote, jobReport,
                    legacy_tracked_users >>

\* send_message returns or raises: the handler's report returns True or
\* False (lines 574-586); the connection is closed, nothing is written
DeliverCommand ==
    /\ Busy(cmdReport)
    /\ \E ok \in BOOLEAN :
         cmdReport' = Returned(cmdReport.chat_id, cmdReport.date_str, ok, TRUE)
    /\ lastPass' = NoPass
    /\ lastEval' = NoEval
    /\ UNCHANGED << now, groups, group_tracked_users, posted_today,
                    problem_info, user_streaks, remote, jobReport,
                    legacy_tracked_users >>

(***************************************************************************)
(* The environment: the clock and the users' accepted submissions.         *)
(***************************************************************************)
\* a day passes
Tick(lastDay) ==
    /\ now + SecondsPerDay <= ClockOfDay(lastDay)
    /\ now' = now + SecondsPerDay
    /\ lastPass' = NoPass
    /\ lastEval' = NoEval
    /\ UNCHANGED << groups, group_tracked_users, posted_today, problem_info,
                    user_streaks, remote, cmdReport, jobReport,
                    legacy_tracked_users >>

\* a day passes, and on the new day each of `solvers` solves `problem_slug`
NextDay(lastDay, solvers, problem_slug) ==
    /\ now + SecondsPerDay <= ClockOfDay(lastDay)
    /\ now' = now + SecondsPerDay
    /\ remote' = [u \in Users |->
                    IF u \in solvers
                    THEN << [titleSlug |-> problem_slug, timestamp |-> now'] >>
                         \o remote[u]
                    ELSE remote[u]]
    /\ lastPass' = NoPass
    /\ lastEval' = NoEval
    /\ UNCHANGED << groups, group_tracked_users, posted_today, problem_info,
                    user_streaks, cmdReport, jobReport,
                    legacy_tracked_users >>

\* the source starts listing an accepted submission first in a user's list:
\* stamped `back` seconds ago
RemoteSubmit(usernames, slugs, stamps) ==
    \E username \in usernames, problem_slug \in slugs, back \in stamps :
        LET sub == [titleSlug |-> problem_slug, timestamp |-> now - back]
        IN  /\ remote' = listed(remote, username, << sub >>)
            /\ lastPass' = NoPass
            /\ lastEval' = NoEval
            /\ UNCHANGED << now, groups, group_tracked_users, posted_today,
                            problem_info, user_streaks, cmdReport, jobReport,
                    legacy_tracked_users >>


\* the state after init_db on a fresh database, on the first day
InitDb ==
    /\ now = ClockOfDay(0)
    /\ legacy_tracked_users = {}
    /\ groups = {}
    /\ group_tracked_users = {}
    /\ posted_today = {}
    /\ problem_info = EmptyTable
    /\ user_streaks = EmptyTable
    /\ remote = [u \in Users |-> << >>]
    /\ lastPass = NoPass
    /\ cmdReport = Idle
    /\ jobReport = Idle
    /\ lastEval = NoEval

\* two registered groups; alice is tracked in both, bob in the first
Roster ==
    { [chat_id |-> 1, leetcode_username |-> "alice", display_name |-> "Al"],
      [chat_id |-> 1, leetcode_username |-> "bob", display_name |-> "Bo"],
      [chat_id |-> 2, leetcode_username |-> "alice", display_name |-> "Al"] }

\* the database after /register_group in both chats and the /add commands
InitRoster ==
    /\ now = ClockOfDay(0)
    /\ legacy_tracked_users = {}
    /\ groups = Chats
    /\ group_tracked_users = Roster
    /\ posted_today = {}
    /\ problem_info = EmptyTable
    /\ user_streaks = EmptyTable
    /\ remote = [u \in Users |-> << >>]
    /\ lastPass = NoPass
    /\ cmdReport = Idle
    /\ jobReport = Idle
    /\ lastEval = NoEval

\* alice tracked in both groups: two units that read one remote list
InitCollect ==
    /\ now = ClockOfDay(0)
    /\ legacy_tracked_users = {}
    /\ groups = Chats
    /\ group_tracked_users = {r \in Roster : r.leetcode_username = "alice"}
    /\ posted_today = {}
    /\ problem_info = EmptyTable
    /\ user_streaks = EmptyTable
    /\ remote = [u \in Users |-> << >>]
    /\ lastPass = NoPass
    /\ cmdReport = Idle
    /\ jobReport = Idle
    /\ lastEval = NoEval

\* the same roster on a day on which alice has solved two-sum
InitReport ==
    /\ now = ClockOfDay(0)
    /\ legacy_tracked_users = {}
    /\ groups = Chats
    /\ group_tracked_users = {r \in Roster : r.leetcode_username = "alice"}
    /\ posted_today = {}
    /\ problem_info = EmptyTable
    /\ user_streaks = EmptyTable
    /\ remote = [u \in Users |-> IF u = "alice"
                                 THEN << [titleSlug |-> "two-sum", timestamp |-> now] >>
                                 ELSE << >>]
    /\ lastPass = NoPass
    /\ cmdReport = Idle
    /\ jobReport = Idle
    /\ lastEval = NoEval

AllOutcomes == {ApiOk, ApiFail, ApiRaise}
\* how far back the source stamps a submission: now, or a day ago
Stamps == {0, SecondsPerDay}

(***************************************************************************)
(* The collector and its sources: the submission source may be down for a  *)
(* unit, the metadata lookup may fail or raise for a problem.              *)
(***************************************************************************)
\* no user has more than MaxFeed accepted submissions
FeedsWithinBound == \A u \in Users : Len(remote[u]) <= MaxFeed

\* alice solves any of the problems at any moment, between two passes or
\* between the two fetches of one pass, MaxFeed times at most
NextCollect ==
    \/ Tick(1)
    \/ (RemoteSubmit({"alice"}, Slugs, {0}) /\ FeedsWithinBound')
    \/ (check_for_updates({ApiOk, ApiFail}, AllOutcomes,
           {<< "alice", [titleSlug |-> q, timestamp |-> now] >> : q \in Slugs})
        /\ FeedsWithinBound')

SpecCollect == InitCollect /\ [][NextCollect]_vars

(***************************************************************************)
(* The collector over any short list the submission source may hold for    *)
(* alice, entries dated today or yesterday in any order, every failure of  *)
(* the two sources included.                                               *)
(***************************************************************************)
\* the lists of up to MaxList entries
FeedEntries ==
    {[titleSlug |-> q, timestamp |-> ClockOfDay(0) - back] :
        q \in Slugs, back \in Stamps}
Feeds == UNION {[1..n -> FeedEntries] : n \in 0..MaxList}

InitFeeds ==
    /\ now = ClockOfDay(0)
    /\ legacy_tracked_users = {}
    /\ groups = Chats
    /\ group_tracked_users = {r \in Roster : r.leetcode_username = "alice"}
    /\ posted_today = {}
    /\ problem_info = EmptyTable
    /\ user_streaks = EmptyTable
    /\ \E feed \in Feeds :
          remote = [u \in Users |-> IF u = "alice" THEN feed ELSE << >>]
    /\ lastPass = NoPass
    /\ cmdReport = Idle
    /\ jobReport = Idle
    /\ lastEval = NoEval

NextFeeds == check_for_updates(AllOutcomes, AllOutcomes, {})

SpecFeeds == InitFeeds /\ [][NextFeeds]_vars

(***************************************************************************)
(* Collector and reports together: alice solves a problem every day, the   *)
(* sources may be down for any unit of any pass, and reports are asked for *)
(* today and for yesterday at any moment.                                  *)
(***************************************************************************)
Next ==
    \/ NextDay(MaxDay, {"alice"}, "two-sum")
    \/ check_for_updates({ApiOk, ApiFail}, {ApiOk, ApiFail}, {})
    \/ manual_send_today_command(Chats)
    \/ manual_send_report_command(Chats)
    \/ command_report
    \/ DeliverCommand

Spec == InitReport /\ [][Next]_vars

(***************************************************************************)
(* The streak engine on its own: any caller, any date of the window.       *)
(***************************************************************************)
Evaluate(username, n, solved) ==
    /\ \E r \in {update_user_streak(user_streaks, username, DateStr(n), solved)} :
        /\ user_streaks' = r.streaks
        /\ lastEval' = [status |-> "made", username |-> username,
                        date_str |-> DateStr(n), solved |-> solved,
                        value |-> r.value, show |-> r.show,
                        existing |-> IF username \in DOMAIN user_streaks
                                     THEN << user_streaks[username] >> ELSE << >>]
    /\ UNCHANGED << now, groups, group_tracked_users, posted_today,
                    problem_info, remote, lastPass, cmdReport, jobReport,
                    legacy_tracked_users >>

NextStreak ==
    \E username \in {"alice", "bob"}, n \in 0..MaxStreakDay, solved \in BOOLEAN :
        Evaluate(username, n, solved)

SpecStreak == InitDb /\ [][NextStreak]_vars

(***************************************************************************)
(* The streak engine with its history: alice is evaluated for the dates of *)
(* days 0..MaxRunDay in any order, any number of times, as solved or as    *)
(* missed; lastEval also keeps every evaluation made so far.               *)
(***************************************************************************)
EvaluationsSoFar == IF lastEval.status = "made" THEN lastEval.evaluated ELSE {}

EvaluateRecorded(username, n, solved) ==
    /\ \E r \in {update_user_streak(user_streaks, username, DateStr(n), solved)} :
        /\ user_streaks' = r.streaks
        /\ lastEval' = [status |-> "made", username |-> username,
                        date_str |-> DateStr(n), solved |-> solved,
                        value |-> r.value, show |-> r.show,
                        evaluated |-> EvaluationsSoFar \cup
                            {[username |-> username, date_str |-> DateStr(n),
                              solved |-> solved]}]
    /\ UNCHANGED << now, groups, group_tracked_users, posted_today,
                    problem_info, remote, lastPass, cmdReport, jobReport,
                    legacy_tracked_users >>

NextRuns ==
    \E n \in 0..MaxRunDay, solved \in BOOLEAN :
        EvaluateRecorded("alice", n, solved)

SpecRuns == InitDb /\ [][NextRuns]_vars

(***************************************************************************)
(* The metadata cache on its own: any caller, any answer of the lookup.    *)
(***************************************************************************)
\* what fetch_problem_difficulty may hand back: a pair of a difficulty or
\* None and a title or None, or an exception
ApiAnswers ==
    {[raised |-> FALSE, value |-> << d, t >>] :
        d \in {"Easy", "Medium", "Hard", None}, t \in {"Two Sum", "3Sum", None}}
    \cup {[raised |-> TRUE, value |-> << None, None >>]}

\* a caller resolves a problem's metadata and commits
Resolve(problem_slug, api) ==
    /\ \E r \in {resolve_with(problem_info, problem_slug, api)} :
        /\ problem_info' = r.info
        /\ lastEval' = [status |-> "resolved", problem_slug |-> problem_slug,
                        api |-> api, result |-> r.result,
                        lookups |-> IF r.called THEN 1 ELSE 0,
                        raised |-> r.raised]
    /\ UNCHANGED << now, groups, group_tracked_users, posted_today,
                    user_streaks, remote, lastPass, cmdReport, jobReport,
                    legacy_tracked_users >>

NextResolve ==
    \E problem_slug \in Slugs, api \in ApiAnswers : Resolve(problem_slug, api)

SpecResolve == InitDb /\ [][NextResolve]_vars

(***************************************************************************)
(* The command handlers that manage the roster, and the daily sweep.       *)
(***************************************************************************)
\* a faulty variant of first_group: ORDER BY chat_id DESC
last_group(chats) == CHOOSE c \in chats : \A d \in chats : d <= c

\* SELECT chat_id FROM groups ORDER BY chat_id LIMIT 1
first_group(chats) == CHOOSE c \in chats : \A d \in chats : c <= d

\* a row of the legacy posted_today table, which has no chat_id column
LegacyRow(username, problem_slug, date_posted) ==
    [leetcode_username |-> username, problem_slug |-> problem_slug,
     date_posted |-> date_posted]

\* _table_has_column(posted_today, chat_id), read off the rows: an empty
\* table migrates to an empty table whichever layout it has
has_chat_id(posted) == \A r \in posted : "chat_id" \in DOMAIN r

\* lines 107-126: the legacy table is renamed, the new one created, the
\* legacy rows copied under the first registered group if there is one, and
\* the renamed table dropped
migrate_posted_today(chats, posted) ==
    IF has_chat_id(posted) THEN posted
    ELSE IF chats = {} THEN {}
    ELSE {PostedRow(first_group(chats), r.leetcode_username, r.problem_slug,
                    r.date_posted) : r \in posted}

\* lines 129-142: the legacy roster goes to the first registered group
\* while group_tracked_users is empty
migrate_tracked_users(chats, tracked, legacy) ==
    IF tracked = {} /\ chats # {}
    THEN {[chat_id |-> first_group(chats),
           leetcode_username |-> r.leetcode_username,
           display_name |-> r.display_name] : r \in legacy}
    ELSE tracked

\* migrate_legacy_tables: the two tables after it
migrate_legacy_tables(chats, posted, tracked, legacy) ==
    [posted |-> migrate_posted_today(chats, posted),
     tracked |-> migrate_tracked_users(chats, tracked, legacy)]

\* the application's position: it has not polled yet (no start has reached
\* run_polling), it has stopped after it polled, or (Idle, Sending,
\* Returned) it polls
Down == [status |-> "down"]
Stopped == [status |-> "stopped"]
Polling == cmdReport.status \notin {"down", "stopped"}

\* main up to run_polling: init_db creates the tables that are missing
\* (empty), runs the migration and commits
init_db ==
    /\ ~Polling
    /\ \E m \in {migrate_legacy_tables(groups, posted_today,
                                       group_tracked_users,
                                       legacy_tracked_users)} :
          /\ posted_today' = m.posted
          /\ group_tracked_users' = m.tracked
    /\ cmdReport' = Idle
    /\ lastPass' = NoPass
    /\ lastEval' = NoEval
    /\ UNCHANGED << now, legacy_tracked_users, groups, problem_info,
                    user_streaks, remote, jobReport >>

\* the process ends inside init_db, after the legacy table has been renamed
\* (line 108) and before the commit of line 90. No transaction is open when
\* the ALTER TABLE and the CREATE TABLE of lines 108-117 run, so each is
\* committed as it runs; the copy of the rows and the DROP TABLE that follow,
\* and the copy of the roster, are rolled back. The file is left with the
\* legacy rows in posted_today_legacy, which nothing reads again: init_db
\* finds (or creates, line 58) posted_today with a chat_id column from now
\* on. The start has not reached run_polling: the application is where it
\* was
init_db_interrupted ==
    /\ ~Polling
    /\ ~has_chat_id(posted_today)
    /\ posted_today' = {}
    /\ lastPass' = NoPass
    /\ lastEval' = NoEval
    /\ UNCHANGED << now, legacy_tracked_users, groups, group_tracked_users,
                    problem_info, user_streaks, remote, cmdReport,
                    jobReport >>

\* the process ends (Ctrl+C, a crash, a redeploy)
shutdown ==
    /\ Polling
    /\ cmdReport' = Stopped
    /\ lastPass' = NoPass
    /\ lastEval' = NoEval
    /\ UNCHANGED << now, legacy_tracked_users, groups, group_tracked_users,
                    posted_today, problem_info, user_streaks, remote,
                    jobReport >>

\* /register_group in a group chat: INSERT OR REPLACE, the migration, commit
register_group_command(chat_ids) == \E chat_id \in chat_ids :
    /\ ~Handling(cmdReport)
    /\ groups' = groups \cup {chat_id}
    /\ \E m \in {migrate_legacy_tables(groups', posted_today,
                                       group_tracked_users,
                                       legacy_tracked_users)} :
          /\ posted_today' = m.posted
          /\ group_tracked_users' = m.tracked
    /\ lastPass' = NoPass
    /\ lastEval' = [status |-> "reply", command |-> "register_group",
                    chat_id |-> chat_id, text |-> "registered"]
    /\ UNCHANGED << now, legacy_tracked_users, problem_info, user_streaks,
                    remote, cmdReport, jobReport >>

\* a faulty variant of insert_or_ignore: INSERT OR REPLACE
insert_or_replace(tracked, chat_id, username, display_name) ==
    {r \in tracked : ~(r.chat_id = chat_id /\ r.leetcode_username = username)}
    \cup {[chat_id |-> chat_id, leetcode_username |-> username,
           display_name |-> display_name]}

\* INSERT OR IGNORE INTO group_tracked_users: the key is (chat, username)
insert_or_ignore(tracked, chat_id, username, display_name) ==
    IF \E r \in tracked : r.chat_id = chat_id /\ r.leetcode_username = username
    THEN tracked
    ELSE tracked \cup {[chat_id |-> chat_id, leetcode_username |-> username,
                        display_name |-> display_name]}

\* the reply of /add after its INSERT, by cursor.rowcount (lines 229-233)
added(tracked, inserted) ==
    [tracked |-> inserted,
     text |-> IF inserted # tracked THEN "now_tracked" ELSE "already_tracked"]

\* a faulty variant of add_user: the group's registration is not looked up
add_user_unchecked(chats, tracked, chat_id, username, display_name) ==
    added(tracked, insert_or_ignore(tracked, chat_id, username, display_name))

\* lines 214-233 of /add: the roster after it and the reply; the command is
\* refused when the group is not registered
add_user(chats, tracked, chat_id, username, display_name) ==
    IF chat_id \notin chats
    THEN [tracked |-> tracked, text |-> "not_registered"]
    ELSE added(tracked,
               insert_or_ignore(tracked, chat_id, username, display_name))

\* /add <username> <display_name> in a group chat
add_user_command(chat_ids, usernames, names) ==
    \E chat_id \in chat_ids, username_to_add \in usernames,
       display_name \in names :
    \E r \in {add_user(groups, group_tracked_users, chat_id, username_to_add,
                       display_name)} :
        /\ ~Handling(cmdReport)
        /\ group_tracked_users' = r.tracked
        /\ lastPass' = NoPass
        /\ lastEval' = [status |-> "reply", command |-> "add",
                        chat_id |-> chat_id, username |-> username_to_add,
                        display_name |-> display_name, text |-> r.text]
        /\ UNCHANGED << now, legacy_tracked_users, groups, posted_today,
                        problem_info, user_streaks, remote, cmdReport,
                        jobReport >>

\* /remove <username> in a group chat; the reply goes by cursor.rowcount
remove_user_command(chat_ids, usernames) ==
    \E chat_id \in chat_ids, username_to_remove \in usernames :
        /\ ~Handling(cmdReport)
        /\ group_tracked_users' =
              {r \in group_tracked_users :
                  ~(r.chat_id = chat_id
                    /\ r.leetcode_username = username_to_remove)}
        /\ lastPass' = NoPass
        /\ lastEval' = [status |-> "reply", command |-> "remove",
                        chat_id |-> chat_id, username |-> username_to_remove,
                        text |-> IF group_tracked_users' # group_tracked_users
                                 THEN "removed" ELSE "not_found"]
        /\ UNCHANGED << now, legacy_tracked_users, groups, posted_today,
                        problem_info, user_streaks, remote, cmdReport,
                        jobReport >>

\* a faulty variant of two_days_ago_str: the cutoff lies a day ahead
cutoff_a_day_ahead == strftime(now + SecondsPerDay)

\* (datetime.now(utc) - timedelta(days=2)).strftime('%Y-%m-%d')
two_days_ago_str == strftime(now - 2 * SecondsPerDay)

\* a faulty variant of swept: the rows dated at the cutoff go as well
swept_through_cutoff(posted, cutoff) ==
    {r \in posted : TextLess(cutoff, r.date_posted)}

\* the rows the sweep leaves: DELETE ... WHERE date_posted < two_days_ago
swept(posted, cutoff) == {r \in posted : ~TextLess(r.date_posted, cutoff)}

\* the daily cleanup job; it logs cursor.rowcount
clear_daily_log ==
    /\ posted_today' = swept(posted_today, two_days_ago_str)
    /\ lastPass' = NoPass
    /\ lastEval' = [status |-> "swept",
                    rowcount |-> Cardinality(posted_today)
                                 - Cardinality(posted_today')]
    /\ UNCHANGED << now, legacy_tracked_users, groups, group_tracked_users,
                    problem_info, user_streaks, remote, cmdReport, jobReport >>

(***************************************************************************)
(* Every operation that writes the database, on one group: alice solved    *)
(* two-sum on the first day; the group is registered, she is added and     *)
(* removed, the collector passes, reports are asked for and the sweep runs *)
(* in any order over the following days.                                   *)
(***************************************************************************)
InitOps ==
    /\ now = ClockOfDay(0)
    /\ legacy_tracked_users = {}
    /\ groups = {}
    /\ group_tracked_users = {}
    /\ posted_today = {}
    /\ problem_info = EmptyTable
    /\ user_streaks = EmptyTable
    /\ remote = [u \in Users |-> IF u = "alice"
                                 THEN << [titleSlug |-> "two-sum",
                                          timestamp |-> now] >>
                                 ELSE << >>]
    /\ lastPass = NoPass
    /\ cmdReport = Idle
    /\ jobReport = Idle
    /\ lastEval = NoEval

NextOps ==
    \/ Tick(MaxSweepDay)
    \/ register_group_command({1})
    \/ add_user_command({1}, {"alice"}, {"Al"})
    \/ remove_user_command({1}, {"alice"})
    \/ check_for_updates({ApiOk, ApiRaise}, {ApiOk, ApiFail}, {})
    \/ manual_send_today_command(Chats)
    \/ manual_send_report_command(Chats)
    \/ command_report
    \/ DeliverCommand
    \/ clear_daily_log

SpecOps == InitOps /\ [][NextOps]_vars

(***************************************************************************)
(* Reports of a group of four on the day after reports evaluated some of   *)
(* them: any streaks stored for yesterday, yesterday's solves recorded for *)
(* those whose streak is positive, any of the four having solved today.    *)
(***************************************************************************)
DisplayName(username) ==
    IF username = "alice" THEN "Al" ELSE IF username = "bob" THEN "Bo"
    ELSE IF username = "carol" THEN "Cy" ELSE "Di"

RosterOfFour ==
    {[chat_id |-> 1, leetcode_username |-> u, display_name |-> DisplayName(u)] :
        u \in Users}

StreakValues == {v \in (0 - MaxStreak)..MaxStreak : v # 0}

\* the streak tables: a row dated yesterday for some of the users
StreakTables ==
    UNION {[evaluated ->
              {[last_date |-> DateStr(0), streak_value |-> v] :
                  v \in StreakValues}] : evaluated \in SUBSET Users}

\* the dedup rows: yesterday's of the users whose stored streak is positive,
\* today's of `solvers`
RowsOfDays(streaks, solvers) ==
    {PostedRow(1, u, "two-sum", DateStr(0)) :
        u \in {w \in DOMAIN streaks : streaks[w].streak_value > 0}}
    \cup {PostedRow(1, u, "two-sum", DateStr(1)) : u \in solvers}

InitOrder ==
    /\ now = ClockOfDay(1)
    /\ legacy_tracked_users = {}
    /\ groups = {1}
    /\ group_tracked_users = RosterOfFour
    /\ \E streaks \in StreakTables, solvers \in SUBSET Users :
          /\ user_streaks = streaks
          /\ posted_today = RowsOfDays(streaks, solvers)
          /\ remote = [u \in Users |->
                         IF u \in solvers
                         THEN << [titleSlug |-> "two-sum", timestamp |-> now] >>
                         ELSE << >>]
    /\ problem_info = put_info(EmptyTable, "two-sum", "Easy", "Two Sum")
    /\ lastPass = NoPass
    /\ cmdReport = Idle
    /\ jobReport = Idle
    /\ lastEval = NoEval

NextOrder ==
    \/ manual_send_today_command(Chats)
    \/ manual_send_report_command(Chats)
    \/ command_report
    \/ DeliverCommand

SpecOrder == InitOrder /\ [][NextOrder]_vars

(***************************************************************************)
(* The sweep on its own: a database in use for up to MaxRowAge days, any   *)
(* dedup rows of those days (the window crosses a month end), streaks and  *)
(* metadata stored.                                                        *)
(***************************************************************************)
\* the dedup rows that may have been written up to the n-th day
RowsUpTo(n) ==
    {PostedRow(1, u, "two-sum", DateStr(k)) :
        u \in {"alice", "bob"}, k \in 0..n}

InitSweep ==
    /\ \E n \in 0..MaxRowAge :
          /\ now = ClockOfDay(n)
          /\ \E rows \in SUBSET RowsUpTo(n) : posted_today = rows
          /\ user_streaks =
                put_streak(EmptyTable, "alice", DateStr(n), 1)
    /\ legacy_tracked_users = {}
    /\ groups = {1}
    /\ group_tracked_users =
          {r \in RosterOfFour : r.leetcode_username \in {"alice", "bob"}}
    /\ problem_info = put_info(EmptyTable, "two-sum", "Easy", "Two Sum")
    /\ remote = [u \in Users |-> << >>]
    /\ lastPass = NoPass
    /\ cmdReport = Idle
    /\ jobReport = Idle
    /\ lastEval = NoEval

NextSweep == clear_daily_log

SpecSweep == InitSweep /\ [][NextSweep]_vars

(***************************************************************************)
(* The roster commands on a fresh database: either group is registered,    *)
(* alice and bob are added under either display name and removed, in any   *)
(* order.                                                                  *)
(***************************************************************************)
NextRoster ==
    \/ register_group_command(Chats)
    \/ add_user_command(Chats, {"alice", "bob"}, {"Al", "Bo"})
    \/ remove_user_command(Chats, {"alice", "bob"})

SpecRoster == InitDb /\ [][NextRoster]_vars

(***************************************************************************)
(* The upgrade of a database file of the single-group version: any legacy  *)
(* roster and legacy dedup rows of alice and bob, any groups registered.   *)
(* The application starts, groups are registered, identities added and     *)
(* removed, and it is stopped and started again, in any order; it may be   *)
(* stopped while it starts.                                                *)
(***************************************************************************)
LegacyUsers ==
    {[leetcode_username |-> u, display_name |-> DisplayName(u)] :
        u \in {"alice", "bob"}}

LegacyRows ==
    {LegacyRow(u, "two-sum", DateStr(0)) : u \in {"alice", "bob"}}

InitLegacy ==
    /\ now = ClockOfDay(0)
    /\ \E legacy \in SUBSET LegacyUsers : legacy_tracked_users = legacy
    /\ \E chats \in SUBSET Chats : groups = chats
    /\ group_tracked_users = {}
    /\ \E rows \in SUBSET LegacyRows : posted_today = rows
    /\ problem_info = EmptyTable
    /\ user_streaks = EmptyTable
    /\ remote = [u \in Users |-> << >>]
    /\ lastPass = NoPass
    /\ cmdReport = Down
    /\ jobReport = Idle
    /\ lastEval = NoEval

NextMigrate ==
    \/ init_db
    \/ init_db_interrupted
    \/ shutdown
    \/ (Polling /\ register_group_command(Chats))
    \/ (Polling /\ add_user_command(Chats, {"alice", "carol"}, {"Al"}))
    \/ (Polling /\ remove_user_command(Chats, {"alice", "bob"}))

SpecMigrate == InitLegacy /\ [][NextMigrate]_vars

(***************************************************************************)
(* The first day: alice, tracked in both groups and never evaluated, has   *)
(* solved two-sum today; the collector passes and today's report is asked  *)
(* for in either group, any number of times, all on this one date.         *)
(***************************************************************************)
NextFirstDay ==
    \/ check_for_updates({ApiOk, ApiFail}, {ApiOk, ApiFail}, {})
    \/ manual_send_today_command(Chats)
    \/ command_report
    \/ DeliverCommand

SpecFirstDay == InitReport /\ [][NextFirstDay]_vars

(***************************************************************************)
(* The coroutines on the event loop. A coroutine runs until it awaits;     *)
(* check_for_updates and clear_daily_log hold no await, a report awaits    *)
(* only send_message, after its commit. Here the collector pass is taken   *)
(* unit by unit, as its loops run, lastPass holding its position: the      *)
(* groups still to visit, the group being visited and its users still to   *)
(* collect, the date read at its start and what it has met so far.         *)
(***************************************************************************)
\* a faulty variant of loop_is_free: the pass is suspended between units
loop_is_free_between_units(pass) == TRUE

\* another job or handler may take a step: no pass is under way, since a
\* pass under way has no await at which it could be suspended
loop_is_free(pass) == pass.status # "running"

\* lines 391-404: the groups and the date are read; no groups, no pass
start_pass ==
    /\ loop_is_free(lastPass)
    /\ lastPass' =
          IF groups = {}
          THEN [status |-> "run", fetched |-> EmptyTable, given |-> EmptyTable,
                meta |-> << >>, calls |-> << >>, failed |-> << >>]
          ELSE [status |-> "running", today |-> today_utc_str,
                chats |-> InOrder(ChatOrder, groups), chat_id |-> 0,
                users |-> << >>, fetched |-> EmptyTable, given |-> EmptyTable,
                meta |-> << >>, calls |-> << >>, failed |-> << >>,
                start |-> [posted |-> posted_today, info |-> problem_info],
                units |-> PassUnits]
    /\ lastEval' = NoEval
    /\ UNCHANGED << now, legacy_tracked_users, groups, group_tracked_users,
                    posted_today, problem_info, user_streaks, remote,
                    cmdReport, jobReport >>

\* the next turn of the loops of lines 406-465: one unit of the group being
\* visited, or the read of the next group's users, or the end of the pass
pass_step(FetchOutcomes, MetaOutcomes) ==
    /\ lastPass.status = "running"
    /\ IF lastPass.users # << >>
       THEN \E unit \in {<< lastPass.chat_id, Head(lastPass.users) >>} :
            \E fetched \in FetchOutcomes :
            \E given \in {(unit :> fetch_recent_submissions(remote, unit[2],
                                                            fetched))
                          @@ lastPass.given} :
            \E run \in collect_units([posted |-> posted_today,
                                       info |-> problem_info,
                                       calls |-> lastPass.calls,
                                       failed |-> lastPass.failed],
                                      << unit >>, lastPass.today, given,
                                      lastPass.meta, MetaOutcomes) :
            \E db \in {run.db}, meta \in {run.meta} :
                /\ posted_today' = db.posted
                /\ problem_info' = db.info
                /\ lastPass' =
                      [lastPass EXCEPT
                          !.users = Tail(@),
                          !.calls = db.calls,
                          !.failed = db.failed,
                          !.meta = meta,
                          !.given = given,
                          !.fetched = (unit :> fetched) @@ @]
       ELSE /\ UNCHANGED << posted_today, problem_info >>
            /\ lastPass' =
                  IF lastPass.chats # << >>
                  THEN [lastPass EXCEPT
                           !.chats = Tail(@),
                           !.chat_id = Head(lastPass.chats),
                           !.users =
                               InOrder(UserOrder,
                                   {r.leetcode_username :
                                       r \in {x \in group_tracked_users :
                                          x.chat_id = Head(lastPass.chats)}})]
                  ELSE [status |-> "run", fetched |-> lastPass.fetched,
                        given |-> lastPass.given,
                        meta |-> lastPass.meta, calls |-> lastPass.calls,
                        failed |-> lastPass.failed]
    /\ lastEval' = NoEval
    /\ UNCHANGED << now, legacy_tracked_users, groups, group_tracked_users,
                    user_streaks, remote, cmdReport, jobReport >>

\* alice is tracked in both groups and has solved two-sum today; while
\* passes run, she is removed and added again, reports are asked for and
\* delivered and the sweep runs, each when the event loop is free
NextLoop ==
    \/ start_pass
    \/ pass_step(AllOutcomes, {ApiOk, ApiFail})
    \/ (loop_is_free(lastPass) /\ clear_daily_log)
    \/ (loop_is_free(lastPass) /\ manual_send_today_command(Chats))
    \/ (loop_is_free(lastPass) /\ command_report)
    \/ (loop_is_free(lastPass) /\ DeliverCommand)
    \/ (loop_is_free(lastPass) /\ add_user_command(Chats, {"alice"}, {"Al"}))
    \/ (loop_is_free(lastPass) /\ remove_user_command(Chats, {"alice"}))

SpecLoop == InitReport /\ [][NextLoop]_vars

(***************************************************************************)
(* The daily jobs. send_daily_report reads yesterday's date and the groups *)
(* once, then calls generate_and_send_report for each group in turn; it    *)
(* is suspended only while a message is being sent. jobReport holds the    *)
(* run: when it started, its date, the groups read, those still to come    *)
(* and the calls that have returned.                                       *)
(***************************************************************************)
\* the job suspended in the call for the group at the head of `pending`,
\* whose report g is committed and being sent
awaiting(run, pending, calls, g) ==
    [report |-> [status |-> "sending", run |-> run,
                 chat_id |-> Head(pending), date_str |-> run.date_str,
                 pending |-> Tail(pending), calls |-> calls,
                 solved_users |-> g.solved_users,
                 sleepers |-> g.sleepers, message |-> g.message],
     streaks |-> g.streaks]

\* a faulty variant of for_groups: the loop ends with the first call that
\* returns False
RECURSIVE for_groups_until_failure(_, _, _)
for_groups_until_failure(run, pending, calls) ==
    IF pending = << >> \/ (calls # << >> /\ ~calls[Len(calls)].sent)
    THEN [report |-> [status |-> "done", run |-> run, calls |-> calls],
          streaks |-> user_streaks]
    ELSE IF generate_report(Head(pending), run.date_str).empty
    THEN for_groups_until_failure(run, Tail(pending),
            Append(calls, Returned(Head(pending), run.date_str, FALSE, FALSE)))
    ELSE awaiting(run, pending, calls,
                  generate_report(Head(pending), run.date_str))

\* the loop of lines 606-607 from the group at the head of `pending` up to
\* the next await or the end: the job's report and the streak table. `run`
\* is what the job read at its start; a call for a group nobody is tracked
\* in returns False at once, any other call awaits send_message
RECURSIVE for_groups(_, _, _)
for_groups(run, pending, calls) ==
    IF pending = << >>
    THEN [report |-> [status |-> "done", run |-> run, calls |-> calls],
          streaks |-> user_streaks]
    ELSE IF generate_report(Head(pending), run.date_str).empty
    THEN for_groups(run, Tail(pending),
            Append(calls, Returned(Head(pending), run.date_str, FALSE, FALSE)))
    ELSE awaiting(run, pending, calls,
                  generate_report(Head(pending), run.date_str))

\* the daily job starts (lines 588-607): run.reported is every date the
\* job has been started for
send_daily_report ==
    /\ ~Busy(jobReport)
    /\ \E chats \in {InOrder(ChatOrder, groups)} :
       \E r \in {for_groups(
                    [started |-> now, date_str |-> yesterday_utc_str,
                     chats |-> chats,
                     reported |-> (IF jobReport.status = "idle" THEN {}
                                   ELSE jobReport.run.reported)
                                  \cup {yesterday_utc_str}],
                    chats, << >>)} :
          /\ jobReport' = r.report
          /\ user_streaks' = r.streaks
    /\ lastPass' = NoPass
    /\ lastEval' = NoEval
    /\ UNCHANGED << now, legacy_tracked_users, groups, group_tracked_users,
                    posted_today, problem_info, remote, cmdReport >>

\* send_message returns or raises for the job's report: the call returns
\* True or False and the loop goes on with the next group
DeliverJob ==
    /\ Busy(jobReport)
    /\ \E ok \in BOOLEAN :
       \E r \in {for_groups(jobReport.run, jobReport.pending,
                    Append(jobReport.calls,
                           Returned(jobReport.chat_id, jobReport.date_str,
                                    ok, TRUE)))} :
          /\ jobReport' = r.report
          /\ user_streaks' = r.streaks
    /\ lastPass' = NoPass
    /\ lastEval' = NoEval
    /\ UNCHANGED << now, legacy_tracked_users, groups, group_tracked_users,
                    posted_today, problem_info, remote, cmdReport >>

\* the job queue (lines 749-755): the report at 07:00 UTC, the cleanup at
\* 09:00 UTC, every day; as seconds after midnight
report_time == 7 * (SecondsPerDay \div 24)
cleanup_time == 9 * (SecondsPerDay \div 24)

\* the daily job has been started at this clock reading
ReportFired == jobReport.status # "idle" /\ jobReport.run.started = now

\* the clock reaches the next time of the job queue: 09:00 once the report
\* of 07:00 has been started, then 07:00 of the next day, up to lastDay
NextJobTime(lastDay) ==
    /\ IF now % SecondsPerDay = report_time
       THEN /\ ReportFired
            /\ now' = now - report_time + cleanup_time
       ELSE /\ now + SecondsPerDay <= (BaseDay + lastDay + 1) * SecondsPerDay
            /\ now' = now - cleanup_time + SecondsPerDay + report_time
    /\ lastPass' = NoPass
    /\ lastEval' = NoEval
    /\ UNCHANGED << legacy_tracked_users, groups, group_tracked_users,
                    posted_today, problem_info, user_streaks, remote,
                    cmdReport, jobReport >>

\* both groups registered, alice tracked in both and bob in the second, at
\* 07:00 of the first day, on which alice has solved two-sum
InitDaily ==
    /\ now = BaseDay * SecondsPerDay + report_time
    /\ legacy_tracked_users = {}
    /\ groups = Chats
    /\ group_tracked_users =
          {[chat_id |-> 1, leetcode_username |-> "alice", display_name |-> "Al"],
           [chat_id |-> 2, leetcode_username |-> "alice", display_name |-> "Al"],
           [chat_id |-> 2, leetcode_username |-> "bob", display_name |-> "Bo"]}
    /\ posted_today = {}
    /\ problem_info = EmptyTable
    /\ user_streaks = EmptyTable
    /\ remote = [u \in Users |-> IF u = "alice"
                                 THEN << [titleSlug |-> "two-sum",
                                          timestamp |-> now] >>
                                 ELSE << >>]
    /\ lastPass = NoPass
    /\ cmdReport = Idle
    /\ jobReport = Idle
    /\ lastEval = NoEval

\* the daily report is started once at 07:00 of every day, for each group in
\* turn; meanwhile the collector passes, alice is removed from either group
\* and today's report is asked for in the first group (/send_today)
NextDaily ==
    \/ NextJobTime(MaxDay)
    \/ (now % SecondsPerDay = report_time /\ ~ReportFired /\ send_daily_report)
    \/ DeliverJob
    \/ check_for_updates({ApiOk}, {ApiOk}, {})
    \/ remove_user_command(Chats, {"alice"})
    \/ manual_send_today_command({1})
    \/ command_report
    \/ DeliverCommand

SpecDaily == InitDaily /\ [][NextDaily]_vars

\* no user has two accepted submissions of one date
OneSubmissionADay ==
    \A u \in Users : \A i, j \in 1..Len(remote[u]) :
        i < j => strftime(remote[u][i].timestamp)
                    # strftime(remote[u][j].timestamp)

\* the job queue over several days: alice solves two-sum on some of them,
\* once a day at 07:00, between two passes or between two fetches of one
\* pass; the collector passes, the report is started at 07:00 and the
\* cleanup runs at 09:00
NextSchedule ==
    \/ NextJobTime(MaxJobDay)
    \/ (now % SecondsPerDay = report_time /\ ~ReportFired /\ send_daily_report)
    \/ DeliverJob
    \/ (now % SecondsPerDay = cleanup_time /\ clear_daily_log)
    \/ (now % SecondsPerDay = report_time
        /\ RemoteSubmit({"alice"}, {"two-sum"}, {0})
        /\ OneSubmissionADay')
    \/ (check_for_updates({ApiOk}, {ApiOk},
           IF now % SecondsPerDay = report_time
           THEN {<< "alice", [titleSlug |-> "two-sum", timestamp |-> now] >>}
           ELSE {})
        /\ OneSubmissionADay')

SpecSchedule == InitDaily /\ [][NextSchedule]_vars

(***************************************************************************)
(* Properties of the metadata cache (SpecResolve).                         *)
(***************************************************************************)
\* the step is a resolution of a problem the cache does not hold / holds
ResolvedOnMiss ==
    /\ lastEval'.status = "resolved"
    /\ lastEval'.problem_slug \notin DOMAIN problem_info
ResolvedOnHit ==
    /\ lastEval'.status = "resolved"
    /\ lastEval'.problem_slug \in DOMAIN problem_info

\* the lookup answered without a difficulty or without a title
LookupFailed(api) ==
    ~api.raised /\ (api.value[1] = None \/ api.value[2] = None)
LookupSucceeded(api) ==
    ~api.raised /\ api.value[1] # None /\ api.value[2] # None

\* C14: a resolution that misses the cache always invokes the lookup, and
\* when the lookup fails it returns ("N/A", problem-id) and leaves Problem
\* Metadata as it was, so the next resolution of the problem misses and
\* looks it up again.
C14_FailureNotCached ==
    [][ ResolvedOnMiss =>
          /\ lastEval'.lookups = 1
          /\ LookupFailed(lastEval'.api) =>
                /\ lastEval'.result = << "N/A", lastEval'.problem_slug >>
                /\ problem_info' = problem_info
      ]_vars

\* the lookup failed for 3sum and nothing is stored for it
C14_Witness ==
    /\ lastEval.status = "resolved"
    /\ lastEval.problem_slug = "3sum"
    /\ LookupFailed(lastEval.api)
    /\ lastEval.lookups = 1
    /\ lastEval.result = << "N/A", "3sum" >>
    /\ "3sum" \notin DOMAIN problem_info

\* C15: a resolution that misses the cache and whose lookup succeeds with
\* (difficulty, title) invokes the lookup once, stores exactly that pair
\* under the problem-id and returns it.
C15_MissStoresAnswer ==
    [][ (ResolvedOnMiss /\ LookupSucceeded(lastEval'.api)) =>
          /\ lastEval'.lookups = 1
          /\ lastEval'.result = lastEval'.api.value
          /\ DOMAIN problem_info' = DOMAIN problem_info \cup {lastEval'.problem_slug}
          /\ problem_info'[lastEval'.problem_slug] =
                 [difficulty |-> lastEval'.api.value[1],
                  title |-> lastEval'.api.value[2]]
          /\ \A q \in DOMAIN problem_info : problem_info'[q] = problem_info[q]
      ]_vars

\* the test's case: 3sum resolved to ("Medium", "3Sum") and stored
C15_Witness ==
    /\ lastEval.status = "resolved"
    /\ lastEval.problem_slug = "3sum"
    /\ lastEval.lookups = 1
    /\ lastEval.result = << "Medium", "3Sum" >>
    /\ "3sum" \in DOMAIN problem_info
    /\ problem_info["3sum"] = [difficulty |-> "Medium", title |-> "3Sum"]

\* C16: a resolution of a problem Problem Metadata already holds returns the
\* stored (difficulty, title), makes no lookup and changes no table.
C16_HitIsPure ==
    [][ ResolvedOnHit =>
          /\ lastEval'.lookups = 0
          /\ ~lastEval'.raised
          /\ lastEval'.result =
                 << problem_info[lastEval'.problem_slug].difficulty,
                    problem_info[lastEval'.problem_slug].title >>
          /\ UNCHANGED << problem_info, posted_today, user_streaks, groups,
                          group_tracked_users >>
      ]_vars

\* two-sum is stored as ("Easy", "Two Sum"); a resolution for which the
\* lookup would have said ("Hard", "3Sum") returned the stored pair
C16_Witness ==
    /\ lastEval.status = "resolved"
    /\ lastEval.problem_slug = "two-sum"
    /\ lastEval.lookups = 0
    /\ lastEval.api.value = << "Hard", "3Sum" >>
    /\ lastEval.result = << "Easy", "Two Sum" >>
    /\ problem_info["two-sum"] = [difficulty |-> "Easy", title |-> "Two Sum"]

(***************************************************************************)
(* Properties of the collector (SpecCollect).                              *)
(***************************************************************************)
\* C1: every row of the dedup log has a Problem Metadata entry for its
\* problem, after any sequence of collector passes, those in which the
\* metadata lookup fails included.
\* The collector breaks it: a lookup that fails caches nothing, and the row
\* is inserted all the same (lines 452-458).
C1_NoOrphanRow ==
    \A r \in posted_today : r.problem_slug \in DOMAIN problem_info

\* the metadata source answered alike whenever the two passes asked it for
\* one problem
SameAnswers(pass, other) ==
    \A i \in 1..Len(pass.calls), j \in 1..Len(other.calls) :
        pass.calls[i][3] = other.calls[j][3] => pass.meta[i] = other.meta[j]

\* the step is a collector pass that follows another with nothing in
\* between (so on the same date), the remote data being the same: the
\* submission source gives every unit what it gave it in the first pass,
\* and the metadata source has one answer for a problem throughout
SecondPassSameData ==
    /\ lastPass.status = "run"
    /\ lastPass'.status = "run"
    /\ lastPass'.given = lastPass.given
    /\ SameAnswers(lastPass, lastPass)
    /\ SameAnswers(lastPass, lastPass')
    /\ SameAnswers(lastPass', lastPass')

\* the lookups of the pass just taken were for submissions that were not in
\* the dedup log before it
NoLookupForRecorded ==
    \A i \in 1..Len(lastPass'.calls) :
        PostedRow(lastPass'.calls[i][1], lastPass'.calls[i][2],
                  lastPass'.calls[i][3], today_utc_str) \notin posted_today

\* C2: a collector pass run right after another on the same date over the
\* same remote data inserts nothing into the dedup log, and no pass resolves
\* the metadata of a submission the log already records.
C2_SecondPassIdle ==
    [][ /\ (SecondPassSameData => posted_today' = posted_today)
        /\ (lastPass'.status = "run" => NoLookupForRecorded) ]_vars

\* a pass that met today's submission in both groups' units and asked the
\* metadata source nothing, though nothing is cached: the rows were recorded
\* (by a pass that could not cache the metadata)
C2_Witness ==
    /\ lastPass.status = "run"
    /\ \A u \in Chats : lastPass.given[<< u, "alice" >>].list = remote["alice"]
    /\ lastPass.calls = << >>
    /\ problem_info = EmptyTable
    /\ remote["alice"] # << >>
    /\ strftime(remote["alice"][1].timestamp) = today_utc_str
    /\ \A c \in Chats :
          PostedRow(c, "alice", remote["alice"][1].titleSlug, today_utc_str)
              \in posted_today

\* the pass asked the metadata source for problem q and the source failed:
\* it answered (None, None)
LookupFailedIn(pass, q) ==
    /\ pass.status = "run"
    /\ \E i \in 1..Len(pass.calls) :
          pass.calls[i][3] = q /\ pass.meta[i] = ApiFail

\* every source answers the pass, the metadata source for q included
SourcesAnswer(pass, q) ==
    /\ pass.status = "run"
    /\ \A u \in DOMAIN pass.fetched : pass.fetched[u] = ApiOk
    /\ \A i \in 1..Len(pass.calls) :
          pass.calls[i][3] = q => pass.meta[i] = ApiOk

\* C18: the metadata lookup failed for a submission of today in one pass
\* and the metadata source answers in a later pass of the same date: after
\* that pass problem_info holds an entry for the submission's problem.
\* The collector breaks it: the pass in which the lookup failed has
\* recorded the submission in the dedup log (lines 452-458), and a later
\* pass skips a recorded submission before it resolves anything (lines
\* 439-445).
C18_SelfHeals ==
    [][\A q \in Slugs :
          (LookupFailedIn(lastPass, q) /\ SourcesAnswer(lastPass', q))
              => q \in DOMAIN problem_info']_vars

(***************************************************************************)
(* Properties of the collector's units (SpecFeeds).                        *)
(***************************************************************************)
\* the dedup rows of one (group, identity) unit
RowsOf(posted, unit) ==
    {r \in posted : r.chat_id = unit[1] /\ r.leetcode_username = unit[2]}

\* the problems of the leading run of entries dated `today` in a list
RECURSIVE LeadingRun(_, _)
LeadingRun(subs, today) ==
    IF subs = << >> THEN {}
    ELSE IF strftime(Head(subs).timestamp) # today THEN {}
    ELSE {Head(subs).titleSlug} \cup LeadingRun(Tail(subs), today)

\* the step is a collector pass
PassTaken == lastPass'.status = "run"

\* the pass just taken logged an error for the unit
Failed(pass, unit) == \E i \in 1..Len(pass.failed) : pass.failed[i] = unit

\* the unit got its list and ended without an error
Completed(pass, unit) == ~Failed(pass, unit) /\ pass.fetched[unit] = ApiOk

\* C11: when a (group, identity) unit of a pass fails with an error, the
\* dedup rows and metadata written for it in the pass are discarded, what
\* was committed before is kept, and the pass goes on: every unit that gets
\* its list and does not fail has its today's leading submissions recorded.
C11_UnitFailureIsolated ==
    [][ PassTaken =>
          /\ posted_today \subseteq posted_today'
          /\ \A q \in DOMAIN problem_info :
                q \in DOMAIN problem_info' /\ problem_info'[q] = problem_info[q]
          /\ \A unit \in SetOf(PassUnits) :
                /\ Failed(lastPass', unit) =>
                      RowsOf(posted_today', unit) = RowsOf(posted_today, unit)
                /\ Completed(lastPass', unit) =>
                      \A q \in LeadingRun(lastPass'.given[unit].list,
                                          today_utc_str) :
                          PostedRow(unit[1], unit[2], q, today_utc_str)
                              \in posted_today'
          /\ \A q \in (DOMAIN problem_info') \ (DOMAIN problem_info) :
                \E unit \in SetOf(PassUnits) :
                    /\ Completed(lastPass', unit)
                    /\ q \in LeadingRun(lastPass'.given[unit].list,
                                        today_utc_str)
      ]_vars

\* the first group's unit looked up two problems, the second lookup raised:
\* nothing of the unit is left, not even the first problem's metadata, and
\* the second group's unit went on to find its two rows
C11_Witness ==
    /\ lastPass.status = "run"
    /\ lastPass.failed = << << 1, "alice" >> >>
    /\ Len(lastPass.calls) = 2
    /\ lastPass.calls[1][1] = 1
    /\ lastPass.calls[2][1] = 1
    /\ RowsOf(posted_today, << 1, "alice" >>) = {}
    /\ problem_info = EmptyTable
    /\ lastPass.fetched[<< 2, "alice" >>] = ApiOk
    /\ Cardinality(RowsOf(posted_today, << 2, "alice" >>)) = 2

\* C12: of an identity's fetched list only the leading run of entries dated
\* today can be recorded: no row is written for a submission at or after the
\* first entry of another date, even one that is itself dated today.
C12_ShortCircuit ==
    \A r \in posted_today :
        r.problem_slug \in LeadingRun(remote[r.leetcode_username], r.date_posted)

\* a pass that got the list (yesterday's entry, today's entry) for both
\* units, met no error and recorded nothing
C12_Witness ==
    /\ lastPass.status = "run"
    /\ lastPass.failed = << >>
    /\ \A unit \in DOMAIN lastPass.fetched : lastPass.fetched[unit] = ApiOk
    /\ Len(remote["alice"]) = 2
    /\ strftime(remote["alice"][1].timestamp) = yesterday_utc_str
    /\ strftime(remote["alice"][2].timestamp) = today_utc_str
    /\ posted_today = {}

\* the lookups the pass made for the unit
CallsFor(pass, unit) ==
    {i \in 1..Len(pass.calls) :
        pass.calls[i][1] = unit[1] /\ pass.calls[i][2] = unit[2]}

\* C13: when the submission source answers with an absence (None) for an
\* identity, the collector writes nothing for that (group, identity) unit,
\* logs no error for it, and goes on with the next: the units that get their
\* list and do not fail have their today's leading submissions recorded.
C13_AbsenceSkipped ==
    [][ PassTaken =>
          \A unit \in SetOf(PassUnits) :
              lastPass'.fetched[unit] = ApiFail =>
                  /\ RowsOf(posted_today', unit) = RowsOf(posted_today, unit)
                  /\ CallsFor(lastPass', unit) = {}
                  /\ ~Failed(lastPass', unit)
                  /\ (\A other \in SetOf(PassUnits) :
                         lastPass'.fetched[other] = ApiFail)
                        => problem_info' = problem_info
                  /\ \A other \in SetOf(PassUnits) :
                        Completed(lastPass', other) =>
                            \A q \in LeadingRun(lastPass'.given[other].list,
                                                today_utc_str) :
                                PostedRow(other[1], other[2], q, today_utc_str)
                                    \in posted_today'
      ]_vars

\* the source was absent for the first group's unit only: no row and no
\* error for it, and the second group's unit was processed in the same pass
C13_Witness ==
    /\ lastPass.status = "run"
    /\ lastPass.fetched[<< 1, "alice" >>] = ApiFail
    /\ lastPass.fetched[<< 2, "alice" >>] = ApiOk
    /\ lastPass.failed = << >>
    /\ RowsOf(posted_today, << 1, "alice" >>) = {}
    /\ CallsFor(lastPass, << 2, "alice" >>) # {}
    /\ RowsOf(posted_today, << 2, "alice" >>) # {}

(***************************************************************************)
(* Properties of the streak engine (SpecStreak).                           *)
(***************************************************************************)
\* the evaluation just made found a record dated day m and was for day n
EvaluatedFromTo(m, n) ==
    /\ lastEval.status = "made"
    /\ Len(lastEval.existing) = 1
    /\ lastEval.existing[1].last_date = DateStr(m)
    /\ lastEval.date_str = DateStr(n)

\* the evaluation just made returned `value`, shown or not, and the table
\* holds (date, value) for its identity
StoredAndReturned(value, show) ==
    /\ lastEval.value = value
    /\ lastEval.show = show
    /\ lastEval.username \in DOMAIN user_streaks
    /\ user_streaks[lastEval.username] =
           [last_date |-> lastEval.date_str, streak_value |-> value]

\* C5: an evaluation for the day right after the stored last-evaluated date
\* gives streak+1 if solved and the stored streak is positive, +1 if solved
\* otherwise, streak-1 if missed and the stored streak is negative, -1 if
\* missed otherwise; the new (date, streak) is stored and the label is shown.
C5_ConsecutiveDay ==
    \A n \in 1..MaxStreakDay :
        EvaluatedFromTo(n - 1, n) =>
            LET s == lastEval.existing[1].streak_value
            IN  StoredAndReturned(
                    IF lastEval.solved
                    THEN (IF s > 0 THEN s + 1 ELSE 1)
                    ELSE (IF s < 0 THEN s - 1 ELSE -1),
                    TRUE)

\* solved, solved, missed on three consecutive days: the third evaluation
\* finds +2 and gives -1
C5_Witness ==
    /\ EvaluatedFromTo(1, 2)
    /\ lastEval.existing[1].streak_value = 2
    /\ ~lastEval.solved
    /\ lastEval.value = -1

\* C6: an evaluation for an identity with no stored streak stores (date, +1)
\* if solved and (date, -1) otherwise, and returns that value with the label
\* hidden.
C6_FirstEvaluation ==
    (lastEval.status = "made" /\ lastEval.existing = << >>) =>
        StoredAndReturned(IF lastEval.solved THEN 1 ELSE -1, FALSE)

C6_Witness ==
    /\ lastEval.status = "made"
    /\ lastEval.existing = << >>
    /\ lastEval.solved
    /\ user_streaks[lastEval.username].streak_value = 1
    /\ ~lastEval.show

\* C7: an evaluation for a date more than one day after the stored
\* last-evaluated date resets the streak whatever it was: +1 if solved, -1
\* otherwise, stored with the new date, the label shown.
C7_GapResets ==
    \A m \in 0..MaxStreakDay, n \in 0..MaxStreakDay :
        (n > m + 1 /\ EvaluatedFromTo(m, n)) =>
            StoredAndReturned(IF lastEval.solved THEN 1 ELSE -1, TRUE)

\* a streak of +2 recorded on the second day, then a solve two days later
C7_Witness ==
    /\ EvaluatedFromTo(1, 3)
    /\ lastEval.existing[1].streak_value = 2
    /\ lastEval.solved
    /\ lastEval.value = 1

(***************************************************************************)
(* Properties of the reports (Spec).                                       *)
(***************************************************************************)
\* the step is a command's generate_and_send_report reaching its send: the
\* report built is cmdReport', the tables it read are the unprimed ones
ReportGenerated ==
    /\ ~Busy(cmdReport)
    /\ cmdReport'.status = "sending"

\* one entry per tracked user of the report's group
EntriesOf(report) == report.solved_users \o report.sleepers

\* the date is after the one stored for u, or nothing is stored for u
DueFor(u, date_str) ==
    u \notin DOMAIN user_streaks
    \/ strptime(user_streaks[u].last_date) < strptime(date_str)

\* C3: across the reports, an identity's streak row is written at most once
\* for a date (a write always moves the stored date forward), and a report
\* for a date not after the stored one gets the stored streak, label shown,
\* and leaves the row as it is.
C3_WrittenOncePerDate ==
    [][ /\ \A u \in DOMAIN user_streaks :
              user_streaks'[u] # user_streaks[u] =>
                  strptime(user_streaks[u].last_date)
                      < strptime(user_streaks'[u].last_date)
        /\ ReportGenerated =>
              \A i \in 1..Len(EntriesOf(cmdReport')) :
                  LET e == EntriesOf(cmdReport')[i]
                  IN  ~DueFor(e.username, cmdReport'.date_str) =>
                          /\ e.streak_value = user_streaks[e.username].streak_value
                          /\ e.show_streak
                          /\ user_streaks'[e.username] = user_streaks[e.username]
      ]_vars

\* yesterday's report generated when alice's streak is already dated today
C3_Witness ==
    /\ cmdReport.status = "sending"
    /\ cmdReport.date_str = yesterday_utc_str
    /\ "alice" \in DOMAIN user_streaks
    /\ user_streaks["alice"].last_date = today_utc_str
    /\ \E i \in 1..Len(EntriesOf(cmdReport)) :
          /\ EntriesOf(cmdReport)[i].username = "alice"
          /\ EntriesOf(cmdReport)[i].show_streak
          /\ EntriesOf(cmdReport)[i].streak_value
                 = user_streaks["alice"].streak_value

\* C4: once a date D is past (the collector records nothing more for it), a
\* streak row whose last-evaluated date is D is positive exactly when the
\* dedup log credits the identity with a solve on D in some group, whenever
\* and however often reports for D were generated.
\* The code breaks it: a report for D generated before the solve is recorded
\* stores (D, negative), and no later evaluation of D writes (line 688).
C4_StreakReflectsSolve ==
    \A u \in DOMAIN user_streaks :
        TextLess(user_streaks[u].last_date, today_utc_str) =>
            (user_streaks[u].streak_value > 0
                <=> solved_anywhere(u, user_streaks[u].last_date))

\* u is tracked in the group chat_id and in another one, and the dedup log
\* has rows of u for the date in another group and none in chat_id
SolvedOnlyElsewhere(chat_id, u, date_str) ==
    /\ \E t \in group_tracked_users :
          t.chat_id = chat_id /\ t.leetcode_username = u
    /\ \E r \in posted_today, t \in group_tracked_users :
          /\ r.leetcode_username = u
          /\ r.date_posted = date_str
          /\ r.chat_id # chat_id
          /\ t.chat_id = r.chat_id
          /\ t.leetcode_username = u
    /\ \A r \in posted_today :
          ~(r.chat_id = chat_id /\ r.leetcode_username = u
            /\ r.date_posted = date_str)

\* the names a message lists in its section of the given kind
NamesListed(message, kind) ==
    UNION {{message[k].lines[i].name[1] : i \in 1..Len(message[k].lines)} :
             k \in {j \in 1..Len(message) : message[j].heading[2] = kind}}

\* the report lists u among the sleepers and not among the solvers, in its
\* entries and in its message, and evaluated u's streak as solved
SleeperEvaluatedSolved(report, u) ==
    /\ \E i \in 1..Len(report.sleepers) :
          /\ report.sleepers[i].username = u
          /\ report.sleepers[i].solved_anywhere_today
          /\ report.sleepers[i].display_name
                 \in NamesListed(report.message, "sleepers")
          /\ report.sleepers[i].display_name
                 \notin NamesListed(report.message, "solved")
    /\ \A i \in 1..Len(report.solved_users) :
          report.solved_users[i].username # u

\* C8 as stated: whenever an identity tracked in groups A and B has dedup
\* rows for D only in B, the report for (A, D) lists it as a sleeper, not as
\* a solver, and its streak advances: it is stored as (D, positive).
C8_AdvancesAlways ==
    [][ ReportGenerated =>
          \A u \in Users :
              SolvedOnlyElsewhere(cmdReport'.chat_id, u, cmdReport'.date_str) =>
                  /\ SleeperEvaluatedSolved(cmdReport', u)
                  /\ user_streaks'[u].last_date = cmdReport'.date_str
                  /\ user_streaks'[u].streak_value > 0
      ]_vars

\* C8, amended: whenever an identity tracked in groups A and B has dedup rows
\* for D only in B, the report for (A, D) lists it as a sleeper, not as a
\* solver, and evaluates its streak as solved: the streak is stored as
\* (D, positive) if D is after the stored date or nothing is stored, and is
\* left as stored otherwise.
C8_GlobalSignal ==
    [][ ReportGenerated =>
          \A u \in Users :
              SolvedOnlyElsewhere(cmdReport'.chat_id, u, cmdReport'.date_str) =>
                  /\ SleeperEvaluatedSolved(cmdReport', u)
                  /\ IF DueFor(u, cmdReport'.date_str)
                     THEN /\ user_streaks'[u].last_date = cmdReport'.date_str
                          /\ user_streaks'[u].streak_value > 0
                     ELSE user_streaks'[u] = user_streaks[u]
      ]_vars

\* the first group's report for today being sent, alice a sleeper in it,
\* while her only rows for today are the second group's and her streak has
\* advanced to today
C8_Witness ==
    /\ cmdReport.status = "sending"
    /\ cmdReport.chat_id = 1
    /\ cmdReport.date_str = today_utc_str
    /\ SolvedOnlyElsewhere(1, "alice", today_utc_str)
    /\ SleeperEvaluatedSolved(cmdReport, "alice")
    /\ user_streaks["alice"].last_date = today_utc_str
    /\ user_streaks["alice"].streak_value > 0

\* the report lists problem p under u in its solvers' section, with the
\* marker of p's difficulty and the link built from p
ListsProblem(report, u, p) ==
    \E i \in 1..Len(report.solved_users) :
        /\ report.solved_users[i].username = u
        /\ \E j \in 1..Len(report.solved_users[i].submissions) :
              report.solved_users[i].submissions[j][3] = p
        /\ \E k \in 1..Len(report.message) :
              /\ report.message[k].heading[2] = "solved"
              /\ \E j \in 1..Len(report.message[k].lines[i].problems) :
                    report.message[k].lines[i].problems[j][2] = problem_url(p)

\* C9: in every report for (group, date) a tracked identity is among the
\* solvers with problem p listed under it exactly when the dedup log holds
\* the row (group, identity, p, date), and an identity with such a row is
\* never among the sleepers.
\* The code breaks it for a row left without metadata (C1): the report's
\* join drops the row.
C9_SolversAreRows ==
    [][ ReportGenerated =>
          \A t \in group_tracked_users :
              t.chat_id = cmdReport'.chat_id =>
                  \A p \in Slugs :
                      /\ ListsProblem(cmdReport', t.leetcode_username, p)
                            <=> PostedRow(t.chat_id, t.leetcode_username, p,
                                          cmdReport'.date_str) \in posted_today
                      /\ PostedRow(t.chat_id, t.leetcode_username, p,
                                   cmdReport'.date_str) \in posted_today
                            => \A i \in 1..Len(cmdReport'.sleepers) :
                                   cmdReport'.sleepers[i].username
                                       # t.leetcode_username
      ]_vars

\* C10: a failed delivery makes the report return false and leaves the
\* streak evaluations of the report committed: they are in the table when
\* the send starts, and the table after the send is the same whether the
\* delivery failed or succeeded.
C10_FailedDeliveryKeepsStreaks ==
    [][ /\ ReportGenerated =>
              \A i \in 1..Len(EntriesOf(cmdReport')) :
                  LET e == EntriesOf(cmdReport')[i]
                  IN  /\ e.username \in DOMAIN user_streaks'
                      /\ DueFor(e.username, cmdReport'.date_str) =>
                             user_streaks'[e.username] =
                                 [last_date |-> cmdReport'.date_str,
                                  streak_value |-> e.streak_value]
        /\ (Busy(cmdReport) /\ cmdReport'.status = "returned") =>
              /\ user_streaks' = user_streaks
              /\ cmdReport'.attempted
              /\ \A i \in 1..Len(EntriesOf(cmdReport)) :
                    EntriesOf(cmdReport)[i].username \in DOMAIN user_streaks'
      ]_vars

\* a report that evaluated alice for its date and then could not be sent
C10_Witness ==
    /\ cmdReport.status = "returned"
    /\ cmdReport.attempted
    /\ ~cmdReport.sent
    /\ "alice" \in DOMAIN user_streaks
    /\ user_streaks["alice"].last_date = cmdReport.date_str

(***************************************************************************)
(* Properties of the whole database (SpecOps).                             *)
(***************************************************************************)
\* C17: an entry of problem_info, once committed, is never changed nor
\* removed: every step of the collector, of a report, of the sweep and of a
\* command leaves each entry the table holds as it is.
C17_MetadataPermanent ==
    [][\A q \in DOMAIN problem_info :
          /\ q \in DOMAIN problem_info'
          /\ problem_info'[q] = problem_info[q]]_vars

\* the entry is still there on the last day, after the sweep has deleted
\* the dedup row written with it, alice has been removed from the group
\* and a report has evaluated her
C17_Witness ==
    /\ "two-sum" \in DOMAIN problem_info
    /\ problem_info["two-sum"] = [difficulty |-> "Easy", title |-> "Two Sum"]
    /\ now = ClockOfDay(MaxSweepDay)
    /\ posted_today = {}
    /\ group_tracked_users = {}
    /\ "alice" \in DOMAIN user_streaks

\* nobody is tracked in the group
NobodyTracked(chat_id) ==
    \A r \in group_tracked_users : r.chat_id # chat_id

\* the step is a command's generate_and_send_report for the group, from
\* its start to its return or to its send
ReportStepFor(chat_id) ==
    /\ cmdReport.status = "replying"
    /\ cmdReport.chat_id = chat_id
    /\ cmdReport'.status \in {"sending", "returned"}

\* C19: for a group with no tracked identities the report generator
\* returns False, attempts no delivery and leaves user_streaks as it is.
C19_EmptyRosterNoReport ==
    [][\A chat_id \in groups : NobodyTracked(chat_id) =>
          /\ \A date_str \in {today_utc_str, yesterday_utc_str} :
                /\ generate_report(chat_id, date_str).empty
                /\ generate_report(chat_id, date_str).streaks = user_streaks
          /\ ReportStepFor(chat_id) =>
                /\ cmdReport' = Returned(chat_id, cmdReport'.date_str,
                                         FALSE, FALSE)
                /\ user_streaks' = user_streaks]_vars

\* /send_today has returned False with no delivery attempted in a group
\* whose only identity was removed after a report had evaluated her and
\* while the dedup log still holds her solve of the day
C19_Witness ==
    /\ cmdReport = Returned(1, today_utc_str, FALSE, FALSE)
    /\ 1 \in groups
    /\ NobodyTracked(1)
    /\ "alice" \in DOMAIN user_streaks
    /\ PostedRow(1, "alice", "two-sum", today_utc_str) \in posted_today

(***************************************************************************)
(* Properties of the order of a report (SpecOrder).                        *)
(***************************************************************************)
\* the identity a line of the message names
UserNamed(display_name) ==
    CHOOSE u \in Users :
        [chat_id |-> cmdReport.chat_id, leetcode_username |-> u,
         display_name |-> display_name] \in group_tracked_users

\* the streak value the report's evaluation returned for the identity a
\* line names: the one the report has committed
ValueOfLine(line) == user_streaks[UserNamed(line.name[1])].streak_value

\* the lines of the message's section of the given kind, if it has one
LinesOf(message, kind) ==
    IF \E k \in 1..Len(message) : message[k].heading[2] = kind
    THEN message[CHOOSE k \in 1..Len(message) :
                    message[k].heading[2] = kind].lines
    ELSE << >>

\* C20: in every report message the solvers come in non-increasing order of
\* the streak value returned for them and the non-solvers in non-decreasing
\* order of theirs; the values are those of the report's entries.
C20_OrderedByStreak ==
    cmdReport.status = "sending" =>
        /\ \A e \in {EntriesOf(cmdReport)[i] :
                        i \in 1..Len(EntriesOf(cmdReport))} :
              e.streak_value = user_streaks[e.username].streak_value
        /\ \E lines \in {LinesOf(cmdReport.message, "solved")} :
              /\ Len(lines) = Len(cmdReport.solved_users)
              /\ \A i, j \in 1..Len(lines) :
                    i < j => ValueOfLine(lines[i]) >= ValueOfLine(lines[j])
        /\ \E lines \in {LinesOf(cmdReport.message, "sleepers")} :
              /\ Len(lines) = Len(cmdReport.sleepers)
              /\ \A i, j \in 1..Len(lines) :
                    i < j => ValueOfLine(lines[i]) <= ValueOfLine(lines[j])

\* a message being sent in which both sections name their two identities
\* against the order of the display names: Cy before Al among the solvers,
\* Di before Bo among the non-solvers, the streak values differing
C20_Witness ==
    /\ cmdReport.status = "sending"
    /\ \E lines \in {LinesOf(cmdReport.message, "solved")} :
          /\ Len(lines) = 2
          /\ lines[1].name[1] = "Cy"
          /\ lines[2].name[1] = "Al"
          /\ ValueOfLine(lines[1]) > ValueOfLine(lines[2])
    /\ \E lines \in {LinesOf(cmdReport.message, "sleepers")} :
          /\ Len(lines) = 2
          /\ lines[1].name[1] = "Di"
          /\ lines[2].name[1] = "Bo"
          /\ ValueOfLine(lines[1]) < ValueOfLine(lines[2])

\* the identities tracked in the report's group
TrackedIn(chat_id) ==
    {r.leetcode_username : r \in {w \in group_tracked_users :
                                     w.chat_id = chat_id}}

\* u is a solver of the report: the join of lines 492-504 has a row for u
SolverIn(chat_id, u, date_str) ==
    \E r \in posted_today :
        /\ r.chat_id = chat_id
        /\ r.leetcode_username = u
        /\ r.date_posted = date_str
        /\ r.problem_slug \in DOMAIN problem_info

\* the kinds of the sections of a message, in order
KindsOf(message) == [k \in 1..Len(message) |-> message[k].heading[2]]

\* C21: a report message has the solver section exactly when some tracked
\* identity is a solver, and the non-solver section exactly when some
\* tracked identity is a non-solver; with no solver and somebody tracked it
\* is the non-solver section alone.
C21_SectionsPresent ==
    cmdReport.status = "sending" =>
        \E solvers \in {{u \in TrackedIn(cmdReport.chat_id) :
                          SolverIn(cmdReport.chat_id, u, cmdReport.date_str)}} :
        \E others \in {TrackedIn(cmdReport.chat_id) \ solvers} :
            KindsOf(cmdReport.message) =
                (IF solvers # {} THEN << "solved" >> ELSE << >>)
                \o (IF others # {} THEN << "sleepers" >> ELSE << >>)

\* today's report of the group of four on a day nobody has solved: the
\* message being sent is the non-solver section alone, with four lines
C21_Witness ==
    /\ cmdReport.status = "sending"
    /\ cmdReport.date_str = today_utc_str
    /\ TrackedIn(cmdReport.chat_id) = Users
    /\ \A u \in Users : ~SolverIn(cmdReport.chat_id, u, today_utc_str)
    /\ KindsOf(cmdReport.message) = << "sleepers" >>
    /\ Len(cmdReport.message[1].lines) = 4

(***************************************************************************)
(* Properties of the sweep (SpecSweep).                                    *)
(***************************************************************************)
\* how many days before the UTC date of now the row is dated
DaysBefore(r) == strptime(strftime(now)) - strptime(r.date_posted)

\* C22: a sweep at time now removes every dedup row dated 3 or more days
\* before the UTC date of now, keeps every other row (those dated today, 1
\* day and exactly 2 days before), and changes nothing but the dedup log.
C22_SweepCutoff ==
    [][lastEval'.status = "swept" =>
          /\ posted_today' = {r \in posted_today : DaysBefore(r) <= 2}
          /\ lastEval'.rowcount =
                Cardinality({r \in posted_today : DaysBefore(r) >= 3})
          /\ UNCHANGED << now, legacy_tracked_users, groups,
                          group_tracked_users, problem_info, user_streaks,
                          remote, cmdReport, jobReport >>]_vars

\* after a sweep on the last day that deleted rows: alice's rows of today, of
\* 1 and of 2 days before are left, those of 3 and of 4 days before are not
C22_Witness ==
    /\ lastEval.status = "swept"
    /\ lastEval.rowcount >= 2
    /\ now = ClockOfDay(MaxRowAge)
    /\ {r \in posted_today : r.leetcode_username = "alice"} =
          {PostedRow(1, "alice", "two-sum", DateStr(k)) :
              k \in (MaxRowAge - 2)..MaxRowAge}
    /\ user_streaks # EmptyTable

(***************************************************************************)
(* Properties of the operations among each other (SpecOps).                *)
(***************************************************************************)
\* C23: a collector pass changes only the dedup log and problem_info: it
\* starts no delivery and finishes none, and leaves user_streaks, the
\* groups and the tracked identities as they are.
C23_PassFrame ==
    [][lastPass'.status = "run" =>
          UNCHANGED << user_streaks, groups, group_tracked_users,
                       legacy_tracked_users, cmdReport, jobReport >>]_vars

\* a pass has just recorded alice's solve and its metadata while a report
\* of her group, which had evaluated her, was being delivered
C23_Witness ==
    /\ lastPass.status = "run"
    /\ Len(lastPass.calls) > 0
    /\ posted_today # {}
    /\ "two-sum" \in DOMAIN problem_info
    /\ "alice" \in DOMAIN user_streaks
    /\ Busy(cmdReport)

(***************************************************************************)
(* Properties of the event loop (SpecLoop).                                *)
(***************************************************************************)
\* a pass is under way and the step is the next turn of its own loops
OwnStepOfPass ==
    /\ lastPass'.status \in {"running", "run"}
    /\ lastPass'.status = "running" =>
          /\ lastPass'.start = lastPass.start
          /\ lastPass'.units = lastPass.units
          /\ lastPass'.today = lastPass.today
          /\ \/ Len(lastPass'.chats) < Len(lastPass.chats)
             \/ /\ lastPass'.chats = lastPass.chats
                /\ Len(lastPass'.users) < Len(lastPass.users)
    /\ UNCHANGED << groups, group_tracked_users, user_streaks, cmdReport,
                    jobReport >>

\* the pass that ends has done what one uninterrupted pass does to the
\* database it started on
SerialOutcome ==
    \E run \in collect_units([posted |-> lastPass.start.posted,
                               info |-> lastPass.start.info,
                               calls |-> << >>, failed |-> << >>],
                              lastPass.units, lastPass.today,
                              lastPass'.given, lastPass'.meta, {}) :
    \E db \in {run.db} :
        /\ posted_today' = db.posted
        /\ problem_info' = db.info
        /\ lastPass'.calls = db.calls
        /\ lastPass'.failed = db.failed

\* the report that reaches its send has read, evaluated and committed on
\* the one state the step starts from
AccountedAtOnce ==
    \E g \in {generate_report(cmdReport'.chat_id, cmdReport'.date_str)} :
        /\ ~g.empty
        /\ user_streaks' = g.streaks
        /\ cmdReport' = Sending(cmdReport'.chat_id, cmdReport'.date_str, g)

\* C24: no two collector passes overlap and nothing interleaves with a
\* pass, a sweep or a report's accounting: while a pass is under way every
\* step is its own and it ends with the outcome of one uninterrupted pass;
\* a report reads the dedup log, evaluates the streaks and commits in one
\* step, its delivery being the only point at which others run.
C24_NoInterleaving ==
    [][ /\ lastPass.status = "running" => OwnStepOfPass
        /\ (lastPass.status = "running" /\ lastPass'.status = "run")
              => SerialOutcome
        /\ ReportGenerated => AccountedAtOnce
        /\ lastEval'.status = "swept" =>
              /\ posted_today' = swept(posted_today, two_days_ago_str)
              /\ lastPass.status # "running" ]_vars

\* a pass over both groups has ended, having recorded alice's solve for
\* each, while a report that had evaluated her before the pass is still
\* being delivered
C24_Witness ==
    /\ lastPass.status = "run"
    /\ Len(lastPass.calls) = 2
    /\ DOMAIN lastPass.fetched = {<< 1, "alice" >>, << 2, "alice" >>}
    /\ Cardinality(posted_today) = 2
    /\ Busy(cmdReport)
    /\ cmdReport.sleepers # << >>

(***************************************************************************)
(* Properties of the roster commands (SpecRoster).                         *)
(***************************************************************************)
\* the command that has just replied
Replied(command) ==
    /\ lastEval'.status = "reply"
    /\ lastEval'.command = command

\* the tracked-identity records of a username in a group
RecordsOf(tracked, chat_id, username) ==
    {r \in tracked : r.chat_id = chat_id /\ r.leetcode_username = username}

\* C25: in a registered group /add makes the username tracked under the
\* given display name, a second /add of the username changes nothing (the
\* stored display name is kept), /remove makes it untracked in that group
\* and in no other, and a group never holds two records of one username.
C25_RosterCommands ==
    [][ /\ (Replied("add") /\ lastEval'.chat_id \in groups) =>
              IF RecordsOf(group_tracked_users, lastEval'.chat_id,
                           lastEval'.username) = {}
              THEN group_tracked_users' = group_tracked_users \cup
                      {[chat_id |-> lastEval'.chat_id,
                        leetcode_username |-> lastEval'.username,
                        display_name |-> lastEval'.display_name]}
              ELSE group_tracked_users' = group_tracked_users
        /\ Replied("remove") =>
              group_tracked_users' = group_tracked_users \
                  RecordsOf(group_tracked_users, lastEval'.chat_id,
                            lastEval'.username)
        /\ \A chat_id \in Chats, username \in Users :
              Cardinality(RecordsOf(group_tracked_users', chat_id,
                                    username)) <= 1 ]_vars

\* alice has just been added again in group 1, as Bo, and is still tracked
\* there as Al; group 2, from which she was removed, tracks bob only
C25_Witness ==
    /\ lastEval.status = "reply"
    /\ lastEval.command = "add"
    /\ lastEval.chat_id = 1
    /\ lastEval.username = "alice"
    /\ lastEval.display_name = "Bo"
    /\ lastEval.text = "already_tracked"
    /\ RecordsOf(group_tracked_users, 1, "alice") =
          {[chat_id |-> 1, leetcode_username |-> "alice",
            display_name |-> "Al"]}
    /\ 2 \in groups
    /\ {r.leetcode_username : r \in {x \in group_tracked_users :
                                        x.chat_id = 2}} = {"bob"}

\* C26: /add in a group that is not registered leaves the tracked
\* identities as they are and replies that the group is not registered;
\* so every tracked-identity record belongs to a registered group.
C26_AddNeedsRegistration ==
    [][ /\ (Replied("add") /\ lastEval'.chat_id \notin groups) =>
              /\ group_tracked_users' = group_tracked_users
              /\ lastEval'.text = "not_registered"
        /\ \A r \in group_tracked_users' : r.chat_id \in groups' ]_vars

\* /add alice was refused in group 2, not registered, while group 1 is
\* registered and tracks her
C26_Witness ==
    /\ lastEval.status = "reply"
    /\ lastEval.command = "add"
    /\ lastEval.chat_id = 2
    /\ lastEval.text = "not_registered"
    /\ groups = {1}
    /\ RecordsOf(group_tracked_users, 1, "alice") # {}
    /\ RecordsOf(group_tracked_users, 2, "alice") = {}

(***************************************************************************)
(* Properties of the migration (SpecMigrate).                              *)
(***************************************************************************)
\* the step is init_db, run to its commit
Started == ~Polling /\ cmdReport'.status = "idle"

\* the file is of the legacy layout: no group roster, no row with a chat_id
LegacyLayout ==
    /\ group_tracked_users = {}
    /\ \A r \in posted_today : "chat_id" \notin DOMAIN r

\* g is the registered group with the lowest chat id
LowestGroup(g) == g \in groups /\ \A h \in groups : g <= h

\* C27: when the migration runs, to its commit, on a legacy layout with a
\* registered group, every legacy dedup row (identity, problem, date) becomes the row
\* (g, identity, problem, date) and every legacy tracked user a tracked
\* identity of g, g being the registered group of lowest chat id; no row
\* is lost or duplicated.
C27_MigrationMovesData ==
    [][(Started /\ LegacyLayout /\ groups # {}) =>
          \E g \in groups :
              /\ LowestGroup(g)
              /\ posted_today' =
                    {[chat_id |-> g,
                      leetcode_username |-> r.leetcode_username,
                      problem_slug |-> r.problem_slug,
                      date_posted |-> r.date_posted] : r \in posted_today}
              /\ Cardinality(posted_today') = Cardinality(posted_today)
              /\ group_tracked_users' =
                    {[chat_id |-> g,
                      leetcode_username |-> r.leetcode_username,
                      display_name |-> r.display_name] :
                        r \in legacy_tracked_users}
              /\ Cardinality(group_tracked_users') =
                    Cardinality(legacy_tracked_users)
              /\ legacy_tracked_users' = legacy_tracked_users]_vars

\* the first start on a file with both groups registered, both legacy
\* users and both legacy rows: all four are now of group 1
C27_Witness ==
    /\ cmdReport = Idle
    /\ groups = Chats
    /\ legacy_tracked_users = LegacyUsers
    /\ posted_today = {PostedRow(1, u, "two-sum", DateStr(0)) :
                          u \in {"alice", "bob"}}
    /\ group_tracked_users =
          {[chat_id |-> 1, leetcode_username |-> u,
            display_name |-> DisplayName(u)] : u \in {"alice", "bob"}}

\* the migration is invoked: by init_db or by /register_group
MigrationInvoked == Started \/ Replied("register_group")

\* an invocation of the migration has committed its copy of the legacy data:
\* a start has reached its commit (the application has polled) or a
\* registration has been handled, in either case with a group registered
\* by the time of the commit. A start that was killed before its commit
\* has copied nothing and leaves the application as it was
HasCopied == cmdReport.status # "down" /\ groups # {}

\* C28: once the migration has copied the legacy data, every later
\* invocation, at a start or on a registration, after any /add and /remove,
\* leaves the tracked identities and the dedup log as they are; an identity
\* removed from a group is not added again.
\* The migration breaks the claim: it copies the legacy roster whenever
\* group_tracked_users is empty (lines 129-131), and it is empty again once
\* every identity has been removed.
C28_MigrationOnce ==
    [][(MigrationInvoked /\ HasCopied) =>
          /\ group_tracked_users' = group_tracked_users
          /\ posted_today' = posted_today]_vars

(***************************************************************************)
(* Properties of the first day (SpecFirstDay).                             *)
(***************************************************************************)
\* the lines of all sections of a message
AllLines(message) ==
    UNION {{message[k].lines[i] : i \in 1..Len(message[k].lines)} :
             k \in 1..Len(message)}

\* C29: no report for the first date on which an identity is evaluated
\* shows a streak badge next to it, in whichever group and however many
\* times the report for that date is generated. (Every report here is for
\* that date.)
\* The streak engine breaks it: only the evaluation that inserts the row
\* returns the flag False (line 682); an evaluation for the date stored
\* returns the stored value with the flag True (lines 688-689).
C29_FirstDaySilent ==
    cmdReport.status = "sending" =>
        \A line \in AllLines(cmdReport.message) : line.name[2] = << >>

(***************************************************************************)
(* Properties of the streak runs (SpecRuns).                               *)
(***************************************************************************)
\* u was evaluated for the day numbered d, with the given outcome
EvaluatedAs(u, d, solved) ==
    \E e \in EvaluationsSoFar :
        /\ e.username = u
        /\ strptime(e.date_str) = d
        /\ e.solved = solved

\* the distinct dates for which u has been evaluated
DatesEvaluated(u) ==
    {strptime(e.date_str) : e \in {x \in EvaluationsSoFar : x.username = u}}

Magnitude(v) == IF v < 0 THEN 0 - v ELSE v

\* C30: a stored streak of +n with last date D means the identity was
\* evaluated as solved for each of the n consecutive dates D-n+1 .. D, a
\* stored streak of -n that it was evaluated as missed for each of them;
\* n is at least 1 and at most the number of distinct dates evaluated.
C30_StreakIsRunLength ==
    \A u \in DOMAIN user_streaks :
        \E n \in {Magnitude(user_streaks[u].streak_value)} :
        \E last \in {strptime(user_streaks[u].last_date)} :
            /\ n >= 1
            /\ n <= Cardinality(DatesEvaluated(u))
            /\ \A d \in (last - n + 1)..last :
                  EvaluatedAs(u, d, user_streaks[u].streak_value > 0)

\* a streak of +3 stored for the third day, after alice was also evaluated
\* as missed for the second day (too late to count) and for no later day
C30_Witness ==
    /\ "alice" \in DOMAIN user_streaks
    /\ user_streaks["alice"] = [last_date |-> DateStr(2), streak_value |-> 3]
    /\ EvaluatedAs("alice", strptime(DateStr(1)), FALSE)
    /\ EvaluatedAs("alice", strptime(DateStr(1)), TRUE)
    /\ DatesEvaluated("alice") = {strptime(DateStr(k)) : k \in 0..2}

(***************************************************************************)
(* Properties of the daily report job (SpecDaily).                         *)
(***************************************************************************)
\* the groups the generator has been invoked for by the run in hand, in the
\* order of the invocations
InvokedFor(job) ==
    [i \in 1..Len(job.calls) |-> job.calls[i].chat_id]
    \o (IF job.status = "sending" THEN << job.chat_id >> ELSE << >>)

\* the step starts a run of the daily job
JobStarts ==
    /\ jobReport'.status # "idle"
    /\ (jobReport.status = "idle" \/ jobReport'.run # jobReport.run)

\* C31: a run of the daily job reads yesterday's UTC date and the registered
\* groups and invokes the generator once for each of them, in turn, with
\* that date: the groups invoked so far are the first of the groups read,
\* those still to come are the rest, and the run ends only when every group
\* has been invoked, whatever the calls for the earlier groups returned.
C31_DailyRunCoversGroups ==
    /\ [](jobReport.status # "idle" =>
            /\ InvokedFor(jobReport)
                   = SubSeq(jobReport.run.chats, 1, Len(InvokedFor(jobReport)))
            /\ \A i \in 1..Len(jobReport.calls) :
                   jobReport.calls[i].date_str = jobReport.run.date_str
            /\ jobReport.status = "sending" =>
                   /\ jobReport.date_str = jobReport.run.date_str
                   /\ InvokedFor(jobReport) \o jobReport.pending
                          = jobReport.run.chats
            /\ jobReport.status = "done" =>
                   InvokedFor(jobReport) = jobReport.run.chats)
    /\ [][JobStarts =>
            /\ jobReport'.run.date_str = yesterday_utc_str
            /\ jobReport'.run.chats = InOrder(ChatOrder, groups)]_vars

\* a finished run over both groups: the delivery to the first group failed
\* and the report of the second group was generated and sent all the same
C31_Witness ==
    /\ jobReport.status = "done"
    /\ jobReport.run.chats = << 1, 2 >>
    /\ jobReport.calls[1].attempted /\ ~jobReport.calls[1].sent
    /\ jobReport.calls[2].attempted /\ jobReport.calls[2].sent

(***************************************************************************)
(* Properties of the stored streaks (SpecRuns, SpecDaily).                 *)
(***************************************************************************)
\* C32: every stored streak value is an integer other than zero.
C32_StreakNeverZero ==
    \A u \in DOMAIN user_streaks :
        /\ user_streaks[u].streak_value \in Int
        /\ user_streaks[u].streak_value # 0

\* alice, evaluated as solved for the first day and as missed for the second
\* and for the fourth: her streak went from +1 to -1 and, after the gap,
\* started again at -1
C32_Witness ==
    /\ "alice" \in DOMAIN user_streaks
    /\ user_streaks["alice"] = [last_date |-> DateStr(3), streak_value |-> -1]
    /\ EvaluatedAs("alice", strptime(DateStr(0)), TRUE)
    /\ EvaluatedAs("alice", strptime(DateStr(1)), FALSE)
    /\ ~EvaluatedAs("alice", strptime(DateStr(2)), TRUE)
    /\ ~EvaluatedAs("alice", strptime(DateStr(2)), FALSE)

\* C33: the stored last-evaluated date of an identity never decreases, and
\* its record changes only by moving to a later date: a report generated
\* for a date that is not after the stored one leaves the record as it is.
C33_LastDateMonotone ==
    [][\A u \in DOMAIN user_streaks :
          /\ u \in DOMAIN user_streaks'
          /\ \/ user_streaks'[u] = user_streaks[u]
             \/ strptime(user_streaks'[u].last_date)
                    > strptime(user_streaks[u].last_date)]_vars

\* the daily job has just generated yesterday's report of the first group,
\* which tracks alice, after a /send_today had evaluated her for today
C33_Witness ==
    /\ jobReport.status = "sending"
    /\ jobReport.run.started = now
    /\ jobReport.chat_id = 1
    /\ jobReport.date_str = yesterday_utc_str
    /\ "alice" \in {jobReport.sleepers[i].username :
                       i \in 1..Len(jobReport.sleepers)}
                   \cup {jobReport.solved_users[i].username :
                           i \in 1..Len(jobReport.solved_users)}
    /\ "alice" \in DOMAIN user_streaks
    /\ user_streaks["alice"].last_date = today_utc_str

(***************************************************************************)
(* Properties of the message handed to send_message (SpecDaily).           *)
(***************************************************************************)
\* the step generates a report whose delivery is then attempted
AttemptsDelivery(before, after) ==
    after.status = "sending" /\ after # before

\* the places of the message's lines: section and line number
PlacesOf(message) ==
    UNION {{<< k, i >> : i \in 1..Len(message[k].lines)} :
             k \in 1..Len(message)}

\* the message is not empty, has one line for each identity the group
\* tracks, and no other line
ListsRosterOnce(report) ==
    /\ report.message # << >>
    /\ \A k \in 1..Len(report.message) : report.message[k].lines # << >>
    /\ \A r \in {w \in group_tracked_users : w.chat_id = report.chat_id} :
          Cardinality({pl \in PlacesOf(report.message) :
              report.message[pl[1]].lines[pl[2]].name[1] = r.display_name}) = 1
    /\ Cardinality(PlacesOf(report.message))
           = Cardinality(TrackedIn(report.chat_id))

\* C34: whenever a report is handed to send_message, by the daily job or by
\* a command, the message is not empty and every identity the group tracks
\* has exactly one line in it, in one of the two sections; there is no line
\* for anybody else, whatever rows the dedup log holds.
C34_MessagePartitionsRoster ==
    [][/\ AttemptsDelivery(jobReport, jobReport') => ListsRosterOnce(jobReport')
       /\ AttemptsDelivery(cmdReport, cmdReport') => ListsRosterOnce(cmdReport')
      ]_vars

\* the daily job is sending the report of the second group for a date of
\* which the dedup log holds a row of alice in that group; she has been
\* removed from it, and the message is the line of bob alone
C34_Witness ==
    /\ jobReport.status = "sending"
    /\ jobReport.chat_id = 2
    /\ TrackedIn(2) = {"bob"}
    /\ PostedRow(2, "alice", "two-sum", jobReport.date_str) \in posted_today
    /\ "two-sum" \in DOMAIN problem_info
    /\ KindsOf(jobReport.message) = << "sleepers" >>
    /\ Len(jobReport.message[1].lines) = 1
    /\ jobReport.message[1].lines[1].name[1] = "Bo"

(***************************************************************************)
(* Properties of the collector over lists that repeat a problem            *)
(* (SpecFeeds).                                                            *)
(***************************************************************************)
\* the list names the problem q twice within its leading run of entries
\* dated `today`
RepeatsToday(subs, today, q) ==
    \E i, j \in 1..Len(subs) :
        /\ i < j
        /\ subs[i].titleSlug = q /\ subs[j].titleSlug = q
        /\ \A k \in 1..j : strftime(subs[k].timestamp) = today

\* C35: when the list fetched for an identity names a problem more than once
\* among its entries dated today, the unit fails only if a metadata lookup
\* raised (never for the primary key); when it does not fail, the dedup log
\* holds one row for that problem and a row for every other problem of the
\* leading run, and the metadata the unit stored is kept.
C35_RepeatedProblemOneRow ==
    [][ PassTaken =>
          \A unit \in SetOf(PassUnits) :
          \A q \in Slugs :
              (/\ lastPass'.fetched[unit] = ApiOk
               /\ RepeatsToday(lastPass'.given[unit].list, today_utc_str, q)) =>
                  /\ Failed(lastPass', unit) =>
                        \E i \in CallsFor(lastPass', unit) :
                            lastPass'.meta[i] = ApiRaise
                  /\ ~Failed(lastPass', unit) =>
                        /\ Cardinality({r \in RowsOf(posted_today', unit) :
                               /\ r.problem_slug = q
                               /\ r.date_posted = today_utc_str}) = 1
                        /\ \A p \in LeadingRun(lastPass'.given[unit].list,
                                                today_utc_str) :
                               PostedRow(unit[1], unit[2], p, today_utc_str)
                                   \in posted_today'
                        /\ \A i \in CallsFor(lastPass', unit) :
                               lastPass'.meta[i] = ApiOk
                                   => lastPass'.calls[i][3]
                                          \in DOMAIN problem_info'
      ]_vars

\* alice's list is two-sum twice, both dated today: a pass that got the list
\* for both groups logged no error, looked the problem up once and left one
\* row in each group
C35_Witness ==
    /\ lastPass.status = "run"
    /\ lastPass.failed = << >>
    /\ \A unit \in DOMAIN lastPass.fetched : lastPass.fetched[unit] = ApiOk
    /\ RepeatsToday(remote["alice"], today_utc_str, "two-sum")
    /\ Len(lastPass.calls) = 1
    /\ "two-sum" \in DOMAIN problem_info
    /\ posted_today = {PostedRow(c, "alice", "two-sum", today_utc_str) :
                          c \in Chats}

(***************************************************************************)
(* Properties of the job queue (SpecSchedule).                             *)
(***************************************************************************)
\* the step is a run of the daily cleanup
SweepRuns == lastEval'.status = "swept"

\* C36: with the daily report started every day at 07:00 and the cleanup
\* run at 09:00, a dedup row is deleted only after the daily report for its
\* date has been started, and a cleanup run on a date keeps every row of
\* that date and of the date before.
C36_SweepAfterReport ==
    [][/\ \A r \in posted_today \ posted_today' :
             /\ jobReport.status # "idle"
             /\ r.date_posted \in jobReport.run.reported
       /\ SweepRuns =>
             \A r \in posted_today :
                 r.date_posted \in {today_utc_str, yesterday_utc_str}
                     => r \in posted_today'
      ]_vars

\* a cleanup has just deleted rows: the daily report for the first day had
\* been started, and rows of yesterday, reported on this morning, are kept
C36_Witness ==
    /\ lastEval.status = "swept"
    /\ lastEval.rowcount > 0
    /\ jobReport.status # "idle"
    /\ DateStr(0) \in jobReport.run.reported
    /\ yesterday_utc_str \in jobReport.run.reported
    /\ \E r \in posted_today : r.date_posted = yesterday_utc_str

====
